---- MODULE Spec2Model ----
(***************************************************************************)
(* A model of symbex (src/symbex/lib.py, src/symbex/cli.py): locating      *)
(* function, async function and class declarations by name pattern,        *)
(* filtering them, and rendering either the verbatim source lines or a     *)
(* reconstructed signature.                                                *)
(*                                                                         *)
(* Text (names, patterns, source lines, rendered signatures, docstrings)   *)
(* is a sequence of one-character strings.                                 *)
(***************************************************************************)
EXTENDS Integers, Sequences, FiniteSets, TLC

VARIABLES
    pc,          \* position of the driver: "start", then "done" (or a loop position)
    name,        \* match(): the candidate name
    symbols,     \* match() / find_symbol_nodes(): the list of patterns
    matched,     \* match(): the returned bool
    module,      \* the parsed file: the statements of module.body
    options,     \* the arguments of the running operation other than the above
    nodes,       \* find_symbol_nodes(): the returned list of (node, class name)
    results,     \* search(): the (snippet, line_no) pairs produced so far
    node,        \* filter_node() / type_summary() / function_definition(): the node
    flags,       \* search(): the filter options that are set
    summary,     \* type_summary(): the returned TypeSummary
    accepted,    \* filter_node(): the returned bool
    definition,  \* function_definition() and the like: the returned text
    disk,        \* cli(): the files, each with its path, its text and what parse finds
    stdin,       \* cli(): standard input
    stdout,      \* cli(): what was echoed to standard output, item by item
    stderr,      \* cli(): what was echoed to standard error
    exit_code    \* cli(): the exit code

vars == <<pc, name, symbols, matched, module, options, nodes, results,
          node, flags, summary, accepted, definition,
          disk, stdin, stdout, stderr, exit_code>>

\* The value of a variable that the running operation does not use.
Nil == "nil"

(***************************************************************************)
(* Bounds of the model.                                                    *)
(***************************************************************************)
MaxNameLen == 2
MaxPatLen == 4

RECURSIVE SeqsUpTo(_, _)
\* Every sequence over S of length 0..n.
SeqsUpTo(S, n) ==
    IF n = 0 THEN {<<>>}
    ELSE LET shorter == SeqsUpTo(S, n - 1)
         IN  shorter \cup {Append(s, c) : s \in {t \in shorter : Len(t) = n - 1}, c \in S}

\* Identifier characters of the declarations' names.
NameChars == {"a", "b"}
\* Characters of a pattern: identifier characters, the dot, and the characters
\* fnmatch gives a meaning to.
PatternChars == NameChars \cup {".", "*", "?", "[", "]"}

Names == SeqsUpTo(NameChars, MaxNameLen) \ {<<>>}
Patterns == SeqsUpTo(PatternChars, MaxPatLen)

(***************************************************************************)
(* str helpers.                                                            *)
(***************************************************************************)
\* c in s
Contains(s, c) == \E i \in 1..Len(s) : s[i] = c
\* s.count(c)
Count(s, c) == Cardinality({i \in 1..Len(s) : s[i] = c})
\* s.split(".") of a string with exactly one dot: the two parts.
SplitDot(s) ==
    LET d == CHOOSE i \in 1..Len(s) : s[i] = "."
    IN  <<SubSeq(s, 1, d - 1), SubSeq(s, d + 1, Len(s))>>

(***************************************************************************)
(* fnmatch.fnmatch(name, pat), as lib.match calls it.  On POSIX normcase   *)
(* is the identity, so this is fnmatchcase: the pattern is translated to   *)
(* a list of regular-expression items and matched against the whole name.  *)
(* Ranges (a-z) are left out: "-" is not among PatternChars.               *)
(***************************************************************************)
RECURSIVE ClosingBracket(_, _)
\* while j < n and pat[j] != ']': j = j+1   (1-based; Len(pat)+1 when there is none)
ClosingBracket(pat, j) ==
    IF j <= Len(pat) /\ pat[j] # "]" THEN ClosingBracket(pat, j + 1) ELSE j

RECURSIVE translate(_, _)
\* A plausible slip: only "*" is translated, every other character is a
\* literal.
translate_StarOnly(pat, i) ==
    IF i > Len(pat) THEN <<>>
    ELSE (IF pat[i] = "*" THEN <<[t |-> "star", cs |-> {}]>>
          ELSE <<[t |-> "lit", cs |-> {pat[i]}]>>) \o translate(pat, i + 1)

\* fnmatch.translate from position i: items [t, cs], t one of
\* "star" (.*), "any" (.), "lit" (the character in cs), "set" ([cs]), "nset" ([^cs]).
translate(pat, i) ==
    IF i > Len(pat) THEN <<>>
    ELSE
      LET c == pat[i]
          n == Len(pat)
          j0 == i + 1
          j1 == IF j0 <= n /\ pat[j0] = "!" THEN j0 + 1 ELSE j0
          j2 == IF j1 <= n /\ pat[j1] = "]" THEN j1 + 1 ELSE j1
          j == ClosingBracket(pat, j2)
          stuff == SubSeq(pat, i + 1, j - 1)
          chars(s) == {s[k] : k \in 1..Len(s)}
      IN  IF c = "*" THEN <<[t |-> "star", cs |-> {}]>> \o translate(pat, i + 1)
          ELSE IF c = "?" THEN <<[t |-> "any", cs |-> {}]>> \o translate(pat, i + 1)
          ELSE IF c = "[" THEN
              IF j > n THEN <<[t |-> "lit", cs |-> {"["}]>> \o translate(pat, i + 1)
              ELSE IF stuff = <<"!">> THEN
                  <<[t |-> "any", cs |-> {}]>> \o translate(pat, j + 1)
              ELSE IF stuff[1] = "!" THEN
                  <<[t |-> "nset", cs |-> chars(Tail(stuff))]>> \o translate(pat, j + 1)
              ELSE <<[t |-> "set", cs |-> chars(stuff)]>> \o translate(pat, j + 1)
          ELSE <<[t |-> "lit", cs |-> {c}]>> \o translate(pat, i + 1)

\* One regular-expression item against one character.
ItemAccepts(item, ch) ==
    CASE item.t = "any" -> TRUE
      [] item.t = "lit" -> ch \in item.cs
      [] item.t = "set" -> ch \in item.cs
      [] item.t = "nset" -> ch \notin item.cs
      [] OTHER -> FALSE

RECURSIVE ReMatch(_, _, _, _)
\* re.match of the items from k on against s from i on, anchored at the end (\Z).
ReMatch(res, k, s, i) ==
    IF k > Len(res) THEN i > Len(s)
    ELSE IF res[k].t = "star" THEN \E m \in i..(Len(s) + 1) : ReMatch(res, k + 1, s, m)
    ELSE i <= Len(s) /\ ItemAccepts(res[k], s[i]) /\ ReMatch(res, k + 1, s, i + 1)

fnmatch(s, pat) == ReMatch(translate(pat, 1), 1, s, 1)

(***************************************************************************)
(* lib.match(name, symbols).  The candidate names are the ones             *)
(* find_symbol_nodes hands over: an identifier, or "Class.method" with     *)
(* exactly one dot (name.split(".") unpacks into two parts).               *)
(***************************************************************************)
\* A plausible slip: only the method side of a qualified pattern is compared.
MatchesSearch_MethodOnly(nm, search) ==
    IF ~Contains(search, "*") THEN nm = search
    ELSE IF Count(search, ".") = 1 THEN
        Contains(nm, ".") /\ fnmatch(SplitDot(nm)[2], SplitDot(search)[2])
    ELSE fnmatch(nm, search) /\ ~Contains(nm, ".")

\* A plausible slip: every pattern goes through fnmatch, also one without "*".
MatchesSearch_AlwaysGlob(nm, search) ==
    IF Count(search, ".") = 1 THEN
        /\ Contains(nm, ".")
        /\ fnmatch(SplitDot(nm)[1], SplitDot(search)[1])
        /\ fnmatch(SplitDot(nm)[2], SplitDot(search)[2])
    ELSE fnmatch(nm, search) /\ ~Contains(nm, ".")

\* A plausible slip: the "." not in name guard of the last branch is missing.
MatchesSearch_NoDotGuard(nm, search) ==
    IF ~Contains(search, "*") THEN nm = search
    ELSE IF Count(search, ".") = 1 THEN
        /\ Contains(nm, ".")
        /\ fnmatch(SplitDot(nm)[1], SplitDot(search)[1])
        /\ fnmatch(SplitDot(nm)[2], SplitDot(search)[2])
    ELSE fnmatch(nm, search)

\* The body of the loop "for search in symbols": TRUE when it returns True.
MatchesSearch(nm, search) ==
    IF ~Contains(search, "*") THEN
        \* Exact matches only
        nm = search
    ELSE IF Count(search, ".") = 1 THEN
        \* wildcards are supported either side of the dot
        /\ Contains(nm, ".")
        /\ fnmatch(SplitDot(nm)[1], SplitDot(search)[1])
        /\ fnmatch(SplitDot(nm)[2], SplitDot(search)[2])
    ELSE fnmatch(nm, search) /\ ~Contains(nm, ".")

match(nm, syms) == \E k \in 1..Len(syms) : MatchesSearch(nm, syms[k])

\* "Class.method"
Qualified(class, member) == class \o <<".">> \o member

Candidates == Names \cup {Qualified(c, m) : c \in Names, m \in Names}

(***************************************************************************)
(* Text literals of the code, as sequences of characters.                  *)
(***************************************************************************)
COMMA_SP == <<",", " ">>
COLON_SP == <<":", " ">>
ARROW == <<" ", "-", ">", " ">>
ELLIPSIS == <<".", ".", ".">>
SLASH == <<"/">>
STAR == <<"*">>
DEF_KW == <<"d", "e", "f", " ">>
ASYNC_DEF_KW == <<"a", "s", "y", "n", "c", " ", "d", "e", "f", " ">>
CLASS_KW == <<"c", "l", "a", "s", "s", " ">>
INDENT4 == <<" ", " ", " ", " ">>
SELF == <<"s", "e", "l", "f">>
DUNDER_INIT == <<"_", "_", "i", "n", "i", "t", "_", "_">>
METACLASS == <<"m", "e", "t", "a", "c", "l", "a", "s", "s">>
PASS == <<"p", "a", "s", "s">>

(***************************************************************************)
(* The syntax tree ast.parse returns, as far as the code reads it.         *)
(*                                                                         *)
(* An expression is a record tagged by e: "None" (no expression), "Name"   *)
(* (id), "Subscript" (value, slice), "Tuple" (elts), "Constant" (text: the *)
(* str() of its value, truthy: bool(value), isstr), "List" (a literal      *)
(* container of constants: text, truthy) and "Call" (any other shape).     *)
(***************************************************************************)
None == [e |-> "None"]
NameExpr(id) == [e |-> "Name", id |-> id]
SubscriptExpr(value, slice) == [e |-> "Subscript", value |-> value, slice |-> slice]
TupleExpr(elts) == [e |-> "Tuple", elts |-> elts]
ConstantExpr(text, truthy, isstr) ==
    [e |-> "Constant", text |-> text, truthy |-> truthy, isstr |-> isstr]
CallExpr == [e |-> "Call"]
\* A set or dict display of literals with a list, set or dict display as
\* element or key: {[]: 1}, {{}}.
UnhashableExpr == [e |-> "Unhashable"]

\* ast.arg: the parameter's name and its annotation (None when it has none).
Arg(arg, annotation) == [e |-> "arg", arg |-> arg, annotation |-> annotation]
\* ast.arguments without parameters.
\* ast.arguments
Arguments_(posonlyargs, args, kwonlyargs, vararg, kwarg, defaults, kw_defaults) ==
    [posonlyargs |-> posonlyargs, args |-> args, kwonlyargs |-> kwonlyargs,
     vararg |-> vararg, kwarg |-> kwarg, defaults |-> defaults,
     kw_defaults |-> kw_defaults]
NoArgs == Arguments_(<<>>, <<>>, <<>>, None, None, <<>>, <<>>)

\* A FunctionDef, AsyncFunctionDef or ClassDef node, or any other statement
\* (kind "Other").  decorator_list holds the decorators' line numbers, doc is
\* ast.get_docstring(node) (None when there is none), body the child nodes.
Node(kind, nm, args, returns, bases, keywords, doc, decorator_list, lineno, end_lineno, body) ==
    [kind |-> kind, name |-> nm, args |-> args, returns |-> returns,
     bases |-> bases, keywords |-> keywords, doc |-> doc,
     decorator_list |-> decorator_list, lineno |-> lineno,
     end_lineno |-> end_lineno, body |-> body]

\* ", ".join(parts) and the like.
RECURSIVE Join(_, _)
Join(parts, sep) ==
    IF parts = <<>> THEN <<>>
    ELSE IF Len(parts) = 1 THEN parts[1]
    ELSE parts[1] \o sep \o Join(Tail(parts), sep)

(***************************************************************************)
(* lib.annotation_definition                                               *)
(***************************************************************************)
RECURSIVE annotation_definition(_)
\* A plausible slip: a tuple is not descended into.
annotation_definition_FlatTuple(annotation) ==
    IF annotation.e = "None" THEN <<>>
    ELSE IF annotation.e = "Name" THEN annotation.id
    ELSE IF annotation.e = "Subscript" THEN
        annotation_definition(annotation.value) \o <<"[">>
            \o annotation_definition(annotation.slice) \o <<"]">>
    ELSE <<"?">>

\* lines 218-219 (ast.Index) concern trees of Python 3.8 and older, where a
\* subscript's slice is wrapped; ast.parse no longer produces the wrapper.
annotation_definition(annotation) ==
    IF annotation.e = "None" THEN <<>>
    ELSE IF annotation.e = "Name" THEN annotation.id
    ELSE IF annotation.e = "Subscript" THEN
        annotation_definition(annotation.value) \o <<"[">>
            \o annotation_definition(annotation.slice) \o <<"]">>
    ELSE IF annotation.e = "Tuple" THEN
        <<"(">> \o Join([k \in 1..Len(annotation.elts) |->
                            annotation_definition(annotation.elts[k])], COMMA_SP)
            \o <<")">>
    ELSE <<"?">>

(***************************************************************************)
(* lib.function_definition                                                 *)
(***************************************************************************)
\* all_args (lines 110-114)
AllArgs(function_node) ==
    function_node.args.posonlyargs \o function_node.args.args
        \o function_node.args.kwonlyargs

\* One entry of the defaults list (lines 131-138): NoDefault stands for None.
\* literal_eval returns the value of a literal; a str is wrapped in double
\* quotes; on ValueError the entry is the name's id, or "..." for any other
\* expression.  The entry keeps the truth value the code tests at line 151.
NoDefault == [text |-> <<>>, truthy |-> FALSE]
DefaultValue(default) ==
    IF default.e \in {"Constant", "List"} THEN
        IF default.e = "Constant" /\ default.isstr
        THEN [text |-> <<"\"">> \o default.text \o <<"\"">>, truthy |-> TRUE]
        ELSE [text |-> default.text, truthy |-> default.truthy]
    ELSE IF default.e = "Name" THEN [text |-> default.id, truthy |-> TRUE]
    ELSE [text |-> ELLIPSIS, truthy |-> TRUE]

\* The exception literal_eval(default) raises (line 132), Nil when it
\* returns: the value of a literal is built bottom up, and putting a list,
\* set or dict into a set or as a key into a dict raises TypeError; any
\* node that is no literal raises ValueError.
literal_eval_raises(default) ==
    IF default.e \in {"Constant", "List"} THEN Nil
    ELSE IF default.e = "Unhashable" THEN "TypeError"
    ELSE "ValueError"

\* The exception that leaves function_definition, Nil when it returns: line
\* 135 catches ValueError only.
function_definition_raises(function_node) ==
    IF \E k \in 1..Len(function_node.args.defaults) :
          literal_eval_raises(function_node.args.defaults[k]) = "TypeError"
    THEN "TypeError" ELSE Nil

\* defaults (lines 130-138): padded with None in front up to len(all_args).
Defaults(function_node) ==
    LET given == function_node.args.defaults
        pad == Len(AllArgs(function_node)) - Len(given)
    IN  [k \in 1..pad |-> NoDefault] \o [k \in 1..Len(given) |-> DefaultValue(given[k])]

\* arg_str (lines 147-152)
ArgStr(arg, default) ==
    LET named == IF arg.annotation.e # "None"
                 THEN arg.arg \o COLON_SP \o annotation_definition(arg.annotation)
                 ELSE arg.arg
    IN  IF default.truthy THEN named \o <<"=">> \o default.text ELSE named

RECURSIVE ArgumentsFrom(_, _)
\* The loop of lines 142-154 from index i (0-based, as in the code) on.
ArgumentsFrom(function_node, i) ==
    LET all_args == AllArgs(function_node)
        position_of_slash == Len(function_node.args.posonlyargs)
        position_of_star == Len(all_args) - Len(function_node.args.kwonlyargs)
        slash == IF position_of_slash # 0 /\ i = position_of_slash THEN <<SLASH>> ELSE <<>>
        star == IF position_of_star # 0 /\ i = position_of_star THEN <<STAR>> ELSE <<>>
    IN  IF i >= Len(all_args) THEN <<>>
        ELSE slash \o star
             \o <<ArgStr(all_args[i + 1], Defaults(function_node)[i + 1])>>
             \o ArgumentsFrom(function_node, i + 1)

\* The arguments list (lines 140-160).
Arguments(function_node) ==
    ArgumentsFrom(function_node, 0)
        \o (IF function_node.args.vararg.e # "None"
            THEN <<STAR \o function_node.args.vararg.arg>> ELSE <<>>)
        \o (IF function_node.args.kwarg.e # "None"
            THEN <<STAR \o STAR \o function_node.args.kwarg.arg>> ELSE <<>>)

function_definition(function_node) ==
    LET arguments_str == Join(Arguments(function_node), COMMA_SP)
        return_annotation ==
            IF function_node.returns.e # "None"
            THEN ARROW \o annotation_definition(function_node.returns)
            ELSE <<>>
        def_ == IF function_node.kind = "AsyncFunctionDef" THEN ASYNC_DEF_KW ELSE DEF_KW
    IN  def_ \o function_node.name \o <<"(">> \o arguments_str \o <<")">>
            \o return_annotation

(***************************************************************************)
(* lib.class_definition                                                    *)
(***************************************************************************)
\* A keyword of a class header: name=value (arg is <<>> for **value, whose
\* k.arg is None).
Keyword(arg, value) == [e |-> "keyword", arg |-> arg, value |-> value]

\* str(k.value) of a node that is no Name: "<ast.Call object at 0x...>".
\* The address is the one the parse of the run gave the node (field
\* address); it is left out of the text of a node that carries none.
OBJECT_REPR == <<"<", "a", "s", "t", ".", "C", "a", "l", "l", " ", "o", "b", "j", "e", "c", "t", ">">>
OBJECT_AT == <<" ", "a", "t", " ", "0", "x">>
ObjectRepr(value) ==
    IF "address" \in DOMAIN value
    THEN SubSeq(OBJECT_REPR, 1, Len(OBJECT_REPR) - 1) \o OBJECT_AT
             \o <<<<"1", "2", "3", "4", "5", "6", "7", "8", "9">>[value.address]>> \o <<">">>
    ELSE OBJECT_REPR
NONE_TEXT == <<"N", "o", "n", "e">>
EQ_ELLIPSIS == <<"=", ".", ".", ".">>

\* base_classes (lines 177-180): the ids of the bases that are names.
RECURSIVE BaseClasses(_)
BaseClasses(bases) ==
    IF bases = <<>> THEN <<>>
    ELSE (IF Head(bases).e = "Name" /\ Head(bases).id # <<>>
          THEN <<Head(bases).id>> ELSE <<>>) \o BaseClasses(Tail(bases))

\* The keys of the keywords dict (line 184) in insertion order: each keyword
\* name once, at its first position.
RECURSIVE KeywordKeys(_, _)
KeywordKeys(keywords, k) ==
    IF k > Len(keywords) THEN <<>>
    ELSE (IF \E j \in 1..(k - 1) : keywords[j].arg = keywords[k].arg
          THEN <<>> ELSE <<keywords[k].arg>>) \o KeywordKeys(keywords, k + 1)

\* keywords[key]: the value of the last keyword of that name, as line 184
\* stores it: the id of a name, str(value) of anything else.
KeywordValue(keywords, key) ==
    LET last == CHOOSE k \in 1..Len(keywords) :
                    /\ keywords[k].arg = key
                    /\ \A j \in (k + 1)..Len(keywords) : keywords[j].arg # key
        value == keywords[last].value
    IN  IF value.e = "Name" THEN value.id ELSE ObjectRepr(value)

class_definition(class_def) ==
    LET base_classes_str == Join(BaseClasses(class_def.bases), COMMA_SP)
        all_keys == KeywordKeys(class_def.keywords, 1)
        has_metaclass == \E k \in 1..Len(all_keys) : all_keys[k] = METACLASS
        \* keywords.pop("metaclass", None)
        metaclass == IF has_metaclass
                     THEN KeywordValue(class_def.keywords, METACLASS) ELSE <<>>
        keys == SelectSeq(all_keys, LAMBDA key : key # METACLASS)
        keyword_str ==
            Join([k \in 1..Len(keys) |->
                    (IF keys[k] = <<>> THEN NONE_TEXT ELSE keys[k]) \o EQ_ELLIPSIS],
                 COMMA_SP)
        signature0 ==
            IF base_classes_str # <<>> /\ keyword_str # <<>>
            THEN base_classes_str \o COMMA_SP \o keyword_str
            ELSE IF base_classes_str # <<>> THEN base_classes_str
            ELSE IF keyword_str # <<>> THEN keyword_str
            ELSE <<>>
        signature1 ==
            IF metaclass # <<>>
            THEN signature0 \o (IF signature0 # <<>> THEN COMMA_SP ELSE <<>>)
                     \o METACLASS \o <<"=">> \o metaclass
            ELSE signature0
        signature == IF signature1 # <<>> THEN <<"(">> \o signature1 \o <<")">> ELSE <<>>
    IN  CLASS_KW \o class_def.name \o signature

(***************************************************************************)
(* lib.quoted_string and lib.add_docstring                                 *)
(***************************************************************************)
NL == "\n"
QUOTE == "\""
TRIPLE_QUOTE == <<QUOTE, QUOTE, QUOTE>>

RECURSIVE Replace(_, _, _)
\* s.replace(old, new), old not empty.
Replace(s, old, new) ==
    IF Len(s) < Len(old) THEN s
    ELSE IF SubSeq(s, 1, Len(old)) = old
         THEN new \o Replace(SubSeq(s, Len(old) + 1, Len(s)), old, new)
         ELSE <<s[1]>> \o Replace(Tail(s), old, new)

quoted_string(s) ==
    IF Contains(s, NL)
    THEN TRIPLE_QUOTE
         \o Replace(s, TRIPLE_QUOTE, <<"\\", QUOTE, "\\", QUOTE, "\\", QUOTE>>)
         \o TRIPLE_QUOTE
    ELSE <<QUOTE>> \o Replace(s, <<QUOTE>>, <<"\\", QUOTE>>) \o <<QUOTE>>

RECURSIVE Split(_, _)
\* s.split(sep) for a one-character sep: the pieces between the separators.
Split(s, sep) ==
    IF ~Contains(s, sep) THEN <<s>>
    ELSE LET d == CHOOSE i \in 1..Len(s) : s[i] = sep /\ \A j \in 1..(i - 1) : s[j] # sep
         IN  <<SubSeq(s, 1, d - 1)>> \o Split(SubSeq(s, d + 1, Len(s)), sep)

\* textwrap.indent(text, prefix): the prefix goes before every line that
\* holds more than white space.
TextwrapIndent(text, prefix) ==
    LET pieces == Split(text, NL)
        blank(l) == \A k \in 1..Len(l) : l[k] = " "
    IN  Join([k \in 1..Len(pieces) |->
                IF blank(pieces[k]) THEN pieces[k] ELSE prefix \o pieces[k]],
             <<NL>>)

\* add_docstring with the indentation of a top-level declaration whatever
\* is_method says.
add_docstring_Indent4(def_text, n, docstrings, is_method) ==
    IF ~docstrings THEN def_text
    ELSE IF n.doc.e = "None" \/ n.doc.text = <<>> THEN def_text
    ELSE def_text \o <<NL>> \o TextwrapIndent(quoted_string(n.doc.text), INDENT4)

add_docstring(def_text, n, docstrings, is_method) ==
    IF ~docstrings THEN def_text
    ELSE IF n.doc.e = "None" \/ n.doc.text = <<>> THEN def_text
    ELSE def_text \o <<NL>>
         \o TextwrapIndent(quoted_string(n.doc.text),
                           IF is_method THEN INDENT4 \o INDENT4 ELSE INDENT4)

(***************************************************************************)
(* The file.  A statement of the source is a record: its kind, name,       *)
(* number of decorators (one line each), parameters, return annotation,    *)
(* bases, keywords, docstring and body.  "Other" is any one-line statement *)
(* that declares nothing (pass).  SourceLines is the text; Parse is        *)
(* ast.parse: the same statements as nodes with their line numbers.        *)
(* Parameter lists are not spelled out in the text: a header line reads    *)
(* "def f():", "async def f():" or "class C:".                             *)
(***************************************************************************)
Stmt(kind, nm, decorators, args, returns, bases, keywords, doc, body) ==
    [kind |-> kind, name |-> nm, decorators |-> decorators, args |-> args,
     returns |-> returns, bases |-> bases, keywords |-> keywords, doc |-> doc,
     body |-> body]

PassStmt == Stmt("Other", <<>>, 0, NoArgs, None, <<>>, <<>>, None, <<>>)
DECORATOR == <<"@", "d">>

Spaces(level) == [k \in 1..(4 * level) |-> " "]

HeaderLine(st) ==
    IF st.kind = "ClassDef" THEN CLASS_KW \o st.name \o <<":">>
    ELSE (IF st.kind = "AsyncFunctionDef" THEN ASYNC_DEF_KW ELSE DEF_KW)
         \o st.name \o <<"(", ")", ":">>

\* The lines of the docstring statement, when there is one.
DocLines(st) ==
    IF st.doc.e = "None" THEN <<>>
    ELSE Split(TRIPLE_QUOTE \o st.doc.text \o TRIPLE_QUOTE, NL)

RECURSIVE SourceLines(_, _)
\* The text of the statements, line by line, at the given nesting level.
SourceLines(stmts, level) ==
    IF stmts = <<>> THEN <<>>
    ELSE LET st == Head(stmts)
             own == IF st.kind = "Other" THEN <<Spaces(level) \o PASS>>
                    ELSE [k \in 1..st.decorators |-> Spaces(level) \o DECORATOR]
                         \o <<Spaces(level) \o HeaderLine(st)>>
                         \o [k \in 1..Len(DocLines(st)) |->
                                Spaces(level + 1) \o DocLines(st)[k]]
                         \o SourceLines(st.body, level + 1)
         IN  own \o SourceLines(Tail(stmts), level)

\* The file's content: every line ended by a newline.
SourceCode(stmts) ==
    LET lines == SourceLines(stmts, 0)
    IN  Join([k \in 1..Len(lines) |-> lines[k] \o <<NL>>], <<>>)

RECURSIVE Parse(_, _)
\* ast.parse: the nodes of the statements, the first of which starts at
\* line first.  lineno is the line of the def / class keyword.
Parse(stmts, first) ==
    IF stmts = <<>> THEN <<>>
    ELSE LET st == Head(stmts)
             lineno == first + st.decorators
             size == Len(SourceLines(<<st>>, 0))
             nd == Node(st.kind, st.name, st.args, st.returns, st.bases,
                        st.keywords, st.doc,
                        [k \in 1..st.decorators |-> first + k - 1],
                        lineno, first + size - 1,
                        Parse(st.body, lineno + 1 + Len(DocLines(st))))
         IN  <<nd>> \o Parse(Tail(stmts), first + size)

(***************************************************************************)
(* lib.find_symbol_nodes.  A match is (node, class name); the class name   *)
(* None of a top-level match is the empty name.                            *)
(***************************************************************************)
Found(n, class_name) == [node |-> n, class_name |-> class_name]

RECURSIVE MethodMatches_Nested(_, _, _)
\* A plausible slip: the classes nested in the class are searched as well.
MethodMatches_Nested(body, nm, syms) ==
    IF body = <<>> THEN <<>>
    ELSE LET child == Head(body)
         IN  (IF /\ child.kind \in {"FunctionDef", "AsyncFunctionDef"}
                 /\ match(Qualified(nm, child.name), syms)
              THEN <<Found(child, nm)>>
              ELSE IF child.kind = "ClassDef"
              THEN MethodMatches_Nested(child.body, child.name, syms)
              ELSE <<>>)
             \o MethodMatches_Nested(Tail(body), nm, syms)

RECURSIVE MethodMatches(_, _, _)
\* The inner loop (lines 28-32) over the body of class nm.
MethodMatches(body, nm, syms) ==
    IF body = <<>> THEN <<>>
    ELSE LET child == Head(body)
         IN  (IF /\ child.kind \in {"FunctionDef", "AsyncFunctionDef"}
                 /\ match(Qualified(nm, child.name), syms)
              THEN <<Found(child, nm)>> ELSE <<>>)
             \o MethodMatches(Tail(body), nm, syms)

RECURSIVE find_symbol_nodes(_, _)
\* A plausible slip: the methods are collected after all top-level matches.
find_symbol_nodes_MethodsLast(body, syms) ==
    LET Declares(n) == n.kind \in {"ClassDef", "FunctionDef", "AsyncFunctionDef"}
        tops == SelectSeq(body, LAMBDA n : Declares(n) /\ match(n.name, syms))
        classes == SelectSeq(body, LAMBDA n : n.kind = "ClassDef")
    IN  [k \in 1..Len(tops) |-> Found(tops[k], <<>>)]
        \o Join([k \in 1..Len(classes) |->
                    MethodMatches(classes[k].body, classes[k].name, syms)], <<>>)

\* body is parse(code).body.
find_symbol_nodes(body, syms) ==
    IF body = <<>> THEN <<>>
    ELSE LET n == Head(body)
         IN  (IF n.kind \notin {"ClassDef", "FunctionDef", "AsyncFunctionDef"} THEN <<>>
              ELSE (IF match(n.name, syms) THEN <<Found(n, <<>>)>> ELSE <<>>)
                   \o (IF n.kind = "ClassDef"
                       THEN MethodMatches(n.body, n.name, syms) ELSE <<>>))
             \o find_symbol_nodes(Tail(body), syms)

(***************************************************************************)
(* lib.code_for_node: the (text, line) pair.                               *)
(***************************************************************************)
\* lines[start:end] of Python: elements start+1..end, cut at the list's end.
Slice(lines, start, end) == SubSeq(lines, start + 1, IF end > Len(lines) THEN Len(lines) ELSE end)

\* A plausible slip: the line of the def keyword is reported although the
\* text starts at the first decorator.
code_for_node_DefLine(code, n, class_name, sigs, docstrings) ==
    LET lines == Split(code, NL)
        start == IF n.decorator_list # <<>> THEN n.decorator_list[1] - 1 ELSE n.lineno - 1
        end == n.end_lineno
    IN  IF sigs /\ n.kind \in {"FunctionDef", "AsyncFunctionDef"} THEN
            <<add_docstring((IF class_name # <<>> THEN INDENT4 ELSE <<>>)
                                \o function_definition(n),
                            n, docstrings, class_name # <<>>),
              n.lineno>>
        ELSE IF sigs /\ n.kind = "ClassDef" THEN
            <<add_docstring(class_definition(n), n, docstrings, class_name # <<>>),
              n.lineno>>
        ELSE IF sigs THEN
            \* Not a function or class, fall back on just the line
            <<Join(Slice(lines, n.lineno - 1, n.lineno), <<NL>>), n.lineno>>
        ELSE <<Join(Slice(lines, start, end), <<NL>>), n.lineno>>

\* A plausible slip: the decorators are left out of the text.
code_for_node_NoDecorators(code, n, class_name, sigs, docstrings) ==
    LET lines == Split(code, NL)
        start == n.lineno - 1
        end == n.end_lineno
    IN  IF sigs /\ n.kind \in {"FunctionDef", "AsyncFunctionDef"} THEN
            <<add_docstring((IF class_name # <<>> THEN INDENT4 ELSE <<>>)
                                \o function_definition(n),
                            n, docstrings, class_name # <<>>),
              n.lineno>>
        ELSE IF sigs /\ n.kind = "ClassDef" THEN
            <<add_docstring(class_definition(n), n, docstrings, class_name # <<>>),
              n.lineno>>
        ELSE IF sigs THEN
            \* Not a function or class, fall back on just the line
            <<Join(Slice(lines, n.lineno - 1, n.lineno), <<NL>>), n.lineno>>
        ELSE <<Join(Slice(lines, start, end), <<NL>>), start + 1>>

code_for_node(code, n, class_name, sigs, docstrings) ==
    LET lines == Split(code, NL)
        start == IF n.decorator_list # <<>> THEN n.decorator_list[1] - 1 ELSE n.lineno - 1
        end == n.end_lineno
    IN  IF sigs /\ n.kind \in {"FunctionDef", "AsyncFunctionDef"} THEN
            <<add_docstring((IF class_name # <<>> THEN INDENT4 ELSE <<>>)
                                \o function_definition(n),
                            n, docstrings, class_name # <<>>),
              n.lineno>>
        ELSE IF sigs /\ n.kind = "ClassDef" THEN
            <<add_docstring(class_definition(n), n, docstrings, class_name # <<>>),
              n.lineno>>
        ELSE IF sigs THEN
            \* Not a function or class, fall back on just the line
            <<Join(Slice(lines, n.lineno - 1, n.lineno), <<NL>>), n.lineno>>
        ELSE <<Join(Slice(lines, start, end), <<NL>>), start + 1>>

(***************************************************************************)
(* lib.import_line_for_function.  A resolved path is the sequence of its   *)
(* components below the file system's root; the last component of a file's *)
(* path is the file name.                                                  *)
(***************************************************************************)
FROM == <<"f", "r", "o", "m", " ">>
IMPORT == <<" ", "i", "m", "p", "o", "r", "t", " ">>

\* Path.stem: the file name without its last suffix; a dot that starts or
\* ends the name starts no suffix.
Stem(filename) ==
    LET dots == {i \in 2..(Len(filename) - 1) : filename[i] = "."}
        last == CHOOSE i \in dots : \A j \in dots : j <= i
    IN  IF dots = {} THEN filename ELSE SubSeq(filename, 1, last - 1)

\* filepath.relative_to(root_dir) returns (it raises ValueError otherwise).
IsRelativeTo(filepath, root_dir) ==
    Len(root_dir) <= Len(filepath) /\ SubSeq(filepath, 1, Len(root_dir)) = root_dir

\* A plausible slip: the loop does not return at the first root that holds
\* the file, the last such root wins.
import_line_for_function_LastRoot(function_name, filepath, possible_root_dirs) ==
    LET stem == Stem(filepath[Len(filepath)])
        hits == {k \in 1..Len(possible_root_dirs) :
                    IsRelativeTo(filepath, possible_root_dirs[k])}
        k == CHOOSE h \in hits : \A j \in hits : j <= h
        parts == SubSeq(filepath, Len(possible_root_dirs[k]) + 1, Len(filepath))
    IN  IF hits = {}
        THEN [import_line |-> FROM \o <<".">> \o stem \o IMPORT \o function_name,
              consulted |-> Len(possible_root_dirs)]
        ELSE [import_line |->
                  FROM \o Join(SubSeq(parts, 1, Len(parts) - 1) \o <<stem>>, <<".">>)
                       \o IMPORT \o function_name,
              consulted |-> Len(possible_root_dirs)]

RECURSIVE ImportLineFrom(_, _, _, _)
\* The loop of lines 327-338 from the k-th root on, and the fall-back of
\* line 341; consulted counts the roots the loop has looked at.
ImportLineFrom(function_name, filepath, possible_root_dirs, k) ==
    LET stem == Stem(filepath[Len(filepath)])
    IN  IF k > Len(possible_root_dirs)
        THEN [import_line |-> FROM \o <<".">> \o stem \o IMPORT \o function_name,
              consulted |-> k - 1]
        ELSE IF IsRelativeTo(filepath, possible_root_dirs[k])
        THEN LET parts == SubSeq(filepath, Len(possible_root_dirs[k]) + 1, Len(filepath))
             IN  [import_line |->
                      FROM \o Join(SubSeq(parts, 1, Len(parts) - 1) \o <<stem>>, <<".">>)
                           \o IMPORT \o function_name,
                  consulted |-> k]
        ELSE ImportLineFrom(function_name, filepath, possible_root_dirs, k + 1)

import_line_for_function(function_name, filepath, possible_root_dirs) ==
    ImportLineFrom(function_name, filepath, possible_root_dirs, 1)

(***************************************************************************)
(* lib.type_summary                                                        *)
(***************************************************************************)
RECURSIVE TypedArgsFrom(_, _, _)
\* The loop of lines 270-278 from index k on: the number of arguments it
\* appends to typed_args.  first is the loop's flag when it reaches k.
TypedArgsFrom(all_args, k, first) ==
    IF k > Len(all_args) THEN 0
    ELSE IF first /\ all_args[k].arg = SELF THEN TypedArgsFrom(all_args, k + 1, first)
    ELSE (IF all_args[k].annotation.e # "None" THEN 1 ELSE 0)
         + TypedArgsFrom(all_args, k + 1, FALSE)

RECURSIVE HasUntypedSelfFrom(_, _, _)
\* has_untyped_self after the same loop.
HasUntypedSelfFrom(all_args, k, first) ==
    IF k > Len(all_args) THEN FALSE
    ELSE IF first /\ all_args[k].arg = SELF THEN TRUE
    ELSE HasUntypedSelfFrom(all_args, k + 1, FALSE)

TypeSummary(fully, partially) ==
    [e |-> "TypeSummary", fully |-> fully, partially |-> partially]

\* A plausible slip: __init__ is given no special case.
type_summary_NoInitCase(n) ==
    IF n.kind \notin {"FunctionDef", "AsyncFunctionDef"} THEN None
    ELSE
      LET all_args == AllArgs(n)
          num_arguments == Len(all_args)
          has_untyped_self == HasUntypedSelfFrom(all_args, 1, TRUE)
          typed_args == TypedArgsFrom(all_args, 1, TRUE)
          return_is_typed == n.returns.e # "None"
      IN  TypeSummary(
              \/ (typed_args = num_arguments /\ return_is_typed)
              \/ (has_untyped_self /\ typed_args = num_arguments - 1 /\ return_is_typed),
              typed_args > 0 \/ return_is_typed)

\* A plausible slip: partially looks at the arguments only.
type_summary_PartialArgsOnly(n) ==
    IF n.kind \notin {"FunctionDef", "AsyncFunctionDef"} THEN None
    ELSE
      LET all_args == AllArgs(n)
          num_arguments == Len(all_args)
          has_untyped_self == HasUntypedSelfFrom(all_args, 1, TRUE)
          typed_args == TypedArgsFrom(all_args, 1, TRUE)
          return_is_typed == n.returns.e # "None"
      IN  TypeSummary(
              \/ (typed_args = num_arguments /\ return_is_typed)
              \/ (has_untyped_self /\ typed_args = num_arguments - 1 /\ return_is_typed)
              \/ (/\ n.name = DUNDER_INIT
                  /\ \/ (has_untyped_self /\ typed_args = num_arguments - 1)
                     \/ typed_args = num_arguments),
              typed_args > 0)

\* A plausible slip: an annotation on *args or **kwargs counts as typed.
type_summary_StarArgsCount(n) ==
    IF n.kind \notin {"FunctionDef", "AsyncFunctionDef"} THEN None
    ELSE
      LET all_args == AllArgs(n)
          num_arguments == Len(all_args)
          has_untyped_self == HasUntypedSelfFrom(all_args, 1, TRUE)
          typed_args == TypedArgsFrom(all_args, 1, TRUE)
          return_is_typed == n.returns.e # "None"
          star_typed(a) == a.e # "None" /\ a.annotation.e # "None"
      IN  TypeSummary(
              \/ (typed_args = num_arguments /\ return_is_typed)
              \/ (has_untyped_self /\ typed_args = num_arguments - 1 /\ return_is_typed)
              \/ (/\ n.name = DUNDER_INIT
                  /\ \/ (has_untyped_self /\ typed_args = num_arguments - 1)
                     \/ typed_args = num_arguments),
              \/ typed_args > 0 \/ return_is_typed
              \/ star_typed(n.args.vararg) \/ star_typed(n.args.kwarg))

type_summary(n) ==
    IF n.kind \notin {"FunctionDef", "AsyncFunctionDef"} THEN None
    ELSE
      LET all_args == AllArgs(n)
          num_arguments == Len(all_args)
          has_untyped_self == HasUntypedSelfFrom(all_args, 1, TRUE)
          typed_args == TypedArgsFrom(all_args, 1, TRUE)
          return_is_typed == n.returns.e # "None"
          partially == typed_args > 0 \/ return_is_typed
          fully ==
              \/ (typed_args = num_arguments /\ return_is_typed)
              \* all arguments except for the untyped self are typed
              \/ (has_untyped_self /\ typed_args = num_arguments - 1 /\ return_is_typed)
              \* __init__() doesn't need a return type
              \/ (/\ n.name = DUNDER_INIT
                  /\ \/ (has_untyped_self /\ typed_args = num_arguments - 1)
                     \/ typed_args = num_arguments)
      IN  TypeSummary(fully, partially)

(***************************************************************************)
(* cli.is_dunder and cli.search.filter_node.  fl is the set of the filter  *)
(* options of search() that are set.                                       *)
(***************************************************************************)
FilterOptions ==
    {"async_", "function", "unasync", "class_", "documented", "undocumented",
     "public", "private", "dunder", "typed", "untyped", "partially_typed",
     "fully_typed", "no_init"}

\* name.startswith(prefix)
StartsWith(s, prefix) == Len(s) >= Len(prefix) /\ SubSeq(s, 1, Len(prefix)) = prefix
\* name.endswith(suffix)
EndsWith(s, suffix) ==
    Len(s) >= Len(suffix) /\ SubSeq(s, Len(s) - Len(suffix) + 1, Len(s)) = suffix

is_dunder(nm) == StartsWith(nm, <<"_", "_">>) /\ EndsWith(nm, <<"_", "_">>)

\* A docstring node field: ast.get_docstring(node) is this text.
DocString(text) == [e |-> "Str", text |-> text]
\* bool(ast.get_docstring(node)): there is a docstring and it is not empty.
HasDocstring(n) == n.doc.e # "None" /\ n.doc.text # <<>>

\* A plausible slip: the kind options select by OR (a node of any requested
\* kind passes) instead of each rejecting on its own.
filter_node_KindsByOr(n, fl) ==
    LET fully_typed == "fully_typed" \in fl \/ "no_init" \in fl
        s == type_summary(n)
        kinds == (IF "async_" \in fl THEN {"AsyncFunctionDef"} ELSE {})
                 \cup (IF "function" \in fl THEN {"FunctionDef", "AsyncFunctionDef"} ELSE {})
                 \cup (IF "unasync" \in fl THEN {"FunctionDef"} ELSE {})
                 \cup (IF "class_" \in fl THEN {"ClassDef"} ELSE {})
    IN  /\ (fl \cap {"async_", "function", "unasync", "class_"} # {}) => n.kind \in kinds
        /\ ~("documented" \in fl /\ ~HasDocstring(n))
        /\ ~("undocumented" \in fl /\ HasDocstring(n))
        /\ ~("public" \in fl /\ StartsWith(n.name, <<"_">>) /\ ~is_dunder(n.name))
        /\ ~("private" \in fl /\ (is_dunder(n.name) \/ ~StartsWith(n.name, <<"_">>)))
        /\ ~("dunder" \in fl /\ ~is_dunder(n.name))
        /\ ~(s.e = "None"
             /\ (fl \cap {"typed", "untyped", "partially_typed", "no_init"} # {}
                 \/ fully_typed))
        /\ ~("typed" \in fl /\ ~s.partially)
        /\ ~("untyped" \in fl /\ s.partially)
        /\ ~("partially_typed" \in fl /\ ~(s.partially /\ ~s.fully))
        /\ ~("no_init" \in fl /\ n.name = DUNDER_INIT)
        /\ ~(fully_typed /\ ~s.fully)

\* A plausible slip: no_init only rejects __init__ and does not imply
\* fully_typed.
filter_node_NoInitAlone(n, fl) ==
    LET s == type_summary(n)
    IN  /\ ~("async_" \in fl /\ n.kind # "AsyncFunctionDef")
        /\ ~("function" \in fl /\ n.kind \notin {"FunctionDef", "AsyncFunctionDef"})
        /\ ~("unasync" \in fl /\ n.kind # "FunctionDef")
        /\ ~("class_" \in fl /\ n.kind # "ClassDef")
        /\ ~("documented" \in fl /\ ~HasDocstring(n))
        /\ ~("undocumented" \in fl /\ HasDocstring(n))
        /\ ~("public" \in fl /\ StartsWith(n.name, <<"_">>) /\ ~is_dunder(n.name))
        /\ ~("private" \in fl /\ (is_dunder(n.name) \/ ~StartsWith(n.name, <<"_">>)))
        /\ ~("dunder" \in fl /\ ~is_dunder(n.name))
        /\ ~(s.e = "None"
             /\ fl \cap {"typed", "untyped", "partially_typed", "fully_typed"} # {})
        /\ ~("typed" \in fl /\ ~s.partially)
        /\ ~("untyped" \in fl /\ s.partially)
        /\ ~("partially_typed" \in fl /\ ~(s.partially /\ ~s.fully))
        /\ ~("no_init" \in fl /\ n.name = DUNDER_INIT)
        /\ ~("fully_typed" \in fl /\ ~s.fully)

\* filter_node(node) of search() (lines 162-196), with the options as search()
\* has set them: no_init implies fully_typed (lines 108-110).  Each conjunct
\* is one "if ...: return False", in the code's order.
filter_node(n, fl) ==
    LET fully_typed == "fully_typed" \in fl \/ "no_init" \in fl
        s == type_summary(n)
    IN  /\ ~("async_" \in fl /\ n.kind # "AsyncFunctionDef")
        /\ ~("function" \in fl /\ n.kind \notin {"FunctionDef", "AsyncFunctionDef"})
        /\ ~("unasync" \in fl /\ n.kind # "FunctionDef")
        /\ ~("class_" \in fl /\ n.kind # "ClassDef")
        /\ ~("documented" \in fl /\ ~HasDocstring(n))
        /\ ~("undocumented" \in fl /\ HasDocstring(n))
        /\ ~("public" \in fl /\ StartsWith(n.name, <<"_">>) /\ ~is_dunder(n.name))
        /\ ~("private" \in fl /\ (is_dunder(n.name) \/ ~StartsWith(n.name, <<"_">>)))
        /\ ~("dunder" \in fl /\ ~is_dunder(n.name))
        /\ ~(s.e = "None"
             /\ (fl \cap {"typed", "untyped", "partially_typed", "no_init"} # {}
                 \/ fully_typed))
        /\ ~("typed" \in fl /\ ~s.partially)
        /\ ~("untyped" \in fl /\ s.partially)
        /\ ~("partially_typed" \in fl /\ ~(s.partially /\ ~s.fully))
        /\ ~("no_init" \in fl /\ n.name = DUNDER_INIT)
        /\ ~(fully_typed /\ ~s.fully)

(***************************************************************************)
(* Specification SpecMatch: match() on every candidate name and pattern.   *)
(***************************************************************************)
InitMatch ==
    /\ pc = "start"
    /\ disk = Nil /\ stdin = Nil /\ stdout = Nil /\ stderr = Nil /\ exit_code = Nil
    /\ name \in Candidates
    /\ symbols \in {<<p>> : p \in Patterns}
    /\ matched = Nil
    /\ module = Nil /\ options = Nil /\ nodes = Nil /\ results = Nil
    /\ node = Nil /\ flags = Nil /\ summary = Nil /\ accepted = Nil
    /\ definition = Nil

DoMatch ==
    /\ pc = "start"
    /\ matched' = match(name, symbols)
    /\ pc' = "done"
    /\ UNCHANGED <<disk, stdin, stdout, stderr, exit_code,
                   name, symbols, module, options, nodes, results,
                   node, flags, summary, accepted, definition>>

NextMatch == DoMatch

SpecMatch == InitMatch /\ [][NextMatch]_vars

\* The one pattern of SpecMatch.
search == symbols[1]

\* C3: a pattern without "*" matches a candidate (plain or qualified) iff the
\* two are equal strings; "?", "[", "]" and "." stand for themselves.
C3_ExactWithoutStar ==
    (pc = "done" /\ ~Contains(search, "*")) => (matched <=> name = search)

\* A qualified name matched by a star-free pattern holding a dot.
C3_Witness ==
    pc = "done" /\ ~Contains(search, "*") /\ Contains(name, ".") /\ matched = TRUE

\* C4: a pattern with "*" and exactly one "." matches a candidate iff the
\* candidate is qualified (exactly one ".") and its class part matches the
\* pattern's class part and its member part the pattern's member part, each
\* side on its own.
C4_QualifiedWildcard ==
    (pc = "done" /\ Contains(search, "*") /\ Count(search, ".") = 1) =>
        (matched <=> /\ Count(name, ".") = 1
                     /\ fnmatch(SplitDot(name)[1], SplitDot(search)[1])
                     /\ fnmatch(SplitDot(name)[2], SplitDot(search)[2]))

\* "a*.b" style: a qualified wildcard pattern that matched.
C4_Witness ==
    /\ pc = "done" /\ Contains(search, "*") /\ Count(search, ".") = 1
    /\ matched = TRUE /\ SplitDot(search)[1] # <<"*">>

\* C5: whatever matches, a qualified name is matched only by a pattern with
\* exactly one "." and an unqualified name never by such a pattern; so a
\* wildcard pattern without "." matches top-level names only.
C5_DotsAgree ==
    (pc = "done" /\ matched = TRUE) => (Contains(name, ".") <=> Count(search, ".") = 1)

\* "*" alone matched a top-level name.
C5_Witness ==
    pc = "done" /\ matched = TRUE /\ search = <<"*">> /\ ~Contains(name, ".")

RECURSIVE StarOnly(_, _, _, _)
\* s from position i on is pat from position k on with every "*" replaced
\* by some run of characters; every other character stands for itself.
StarOnly(s, i, pat, k) ==
    IF k > Len(pat) THEN i > Len(s)
    ELSE IF pat[k] = "*" THEN \E m \in i..(Len(s) + 1) : StarOnly(s, m, pat, k + 1)
    ELSE i <= Len(s) /\ s[i] = pat[k] /\ StarOnly(s, i + 1, pat, k + 1)

SetEnd(pat, k) ==
    IF \E j \in (k + 2)..Len(pat) : pat[j] = "]"
    THEN CHOOSE j \in (k + 2)..Len(pat) :
            pat[j] = "]" /\ \A h \in (k + 2)..(j - 1) : pat[h] # "]"
    ELSE 0

RECURSIVE ShellMatch(_, _, _, _)
\* Shell-style matching of s from position i on against pat from position k
\* on: "*" is any run of characters, "?" any one character, "[...]" any one
\* of the characters listed (a "[" that is never closed is itself), every
\* other character itself.
ShellMatch(s, i, pat, k) ==
    IF k > Len(pat) THEN i > Len(s)
    ELSE IF pat[k] = "*" THEN \E m \in i..(Len(s) + 1) : ShellMatch(s, m, pat, k + 1)
    ELSE IF pat[k] = "?" THEN i <= Len(s) /\ ShellMatch(s, i + 1, pat, k + 1)
    ELSE IF pat[k] = "[" /\ SetEnd(pat, k) # 0
    THEN /\ i <= Len(s)
         /\ \E h \in (k + 1)..(SetEnd(pat, k) - 1) : pat[h] = s[i]
         /\ ShellMatch(s, i + 1, pat, SetEnd(pat, k) + 1)
    ELSE i <= Len(s) /\ s[i] = pat[k] /\ ShellMatch(s, i + 1, pat, k + 1)

MaxParams == 2

\* Parameter names, by kind and position.
PosOnlyLetters == <<"p", "q", "r", "s">>
PlainLetters == <<"a", "b", "c", "d">>
KwOnlyLetters == <<"k", "l", "m", "n">>

INT == <<"i", "n", "t">>
ONE == ConstantExpr(<<"1">>, TRUE, FALSE)

\* def f(p, q, /, a, b, *args, k, l, **kwargs) -> int, with np, na, nk
\* parameters of each kind, the last nd positional ones and the last nkd
\* keyword-only ones with a default, and every parameter annotated or none.
RenderNode(kind, np, na, nk, vararg, kwarg, nd, nkd, annotated, returns) ==
    LET ann == IF annotated THEN NameExpr(INT) ELSE None
    IN  Node(kind, <<"f">>,
             Arguments_([k \in 1..np |-> Arg(<<PosOnlyLetters[k]>>, ann)],
                        [k \in 1..na |-> Arg(<<PlainLetters[k]>>, ann)],
                        [k \in 1..nk |-> Arg(<<KwOnlyLetters[k]>>, ann)],
                        IF vararg THEN Arg(<<"v">>, None) ELSE None,
                        IF kwarg THEN Arg(<<"w">>, None) ELSE None,
                        [k \in 1..nd |-> ONE],
                        [k \in 1..nk |-> IF k > nk - nkd THEN ONE ELSE None]),
             IF returns THEN NameExpr(INT) ELSE None,
             <<>>, <<>>, None, <<>>, 1, 2, <<>>)

InitRender ==
    /\ pc = "start"
    /\ disk = Nil /\ stdin = Nil /\ stdout = Nil /\ stderr = Nil /\ exit_code = Nil
    /\ \E kind \in {"FunctionDef", "AsyncFunctionDef"},
          np \in 0..MaxParams, na \in 0..MaxParams, nk \in 0..MaxParams,
          vararg \in BOOLEAN, kwarg \in BOOLEAN, annotated \in BOOLEAN,
          returns \in BOOLEAN :
            \E nd \in 0..(np + na), nkd \in 0..nk :
                node = RenderNode(kind, np, na, nk, vararg, kwarg, nd, nkd,
                                  annotated, returns)
    /\ definition = Nil
    /\ name = Nil /\ symbols = Nil /\ matched = Nil
    /\ module = Nil /\ options = Nil /\ nodes = Nil /\ results = Nil
    /\ flags = Nil /\ summary = Nil /\ accepted = Nil

DoFunctionDefinition ==
    /\ pc = "start"
    /\ definition' = [arguments |-> Arguments(node), text |-> function_definition(node)]
    /\ pc' = "done"
    /\ UNCHANGED <<disk, stdin, stdout, stderr, exit_code,
                   name, symbols, matched, module, options, nodes, results,
                   node, flags, summary, accepted>>

NextRender == DoFunctionDefinition

SpecRender == InitRender /\ [][NextRender]_vars

\* The positions of the bare "/" tokens in the rendered arguments list.
SlashPositions == {i \in 1..Len(definition.arguments) : definition.arguments[i] = SLASH}

\* C10: a bare "/" token appears iff the function has a positional-only
\* parameter, and then exactly once, right after the last positional-only
\* parameter, whatever (possibly no) other named parameters follow.
C10_SlashAfterPositionalOnly ==
    pc = "done" =>
        LET np == Len(node.args.posonlyargs)
        IN  IF np = 0 THEN SlashPositions = {} ELSE SlashPositions = {np + 1}

\* The positions of the bare "*" tokens in the rendered arguments list.
StarPositions == {i \in 1..Len(definition.arguments) : definition.arguments[i] = STAR}

\* C11: a bare "*" token appears iff the function has a keyword-only
\* parameter and no *args, and then exactly once, immediately before the
\* token of the first keyword-only parameter, whatever precedes it.
C11_StarBeforeKeywordOnly ==
    pc = "done" =>
        IF node.args.kwonlyargs # <<>> /\ node.args.vararg.e = "None"
        THEN \E i \in 1..(Len(definition.arguments) - 1) :
                /\ StarPositions = {i}
                /\ StartsWith(definition.arguments[i + 1], node.args.kwonlyargs[1].arg)
        ELSE StarPositions = {}

\* The parameter has a default in the source: one of the last
\* len(defaults) positional parameters, or a keyword-only parameter whose
\* kw_defaults entry is not None.
HasSourceDefault(function_node, j) ==
    LET positional == Len(function_node.args.posonlyargs) + Len(function_node.args.args)
    IN  IF j <= positional
        THEN j > positional - Len(function_node.args.defaults)
        ELSE function_node.args.kw_defaults[j - positional].e # "None"

\* C12: the token of each named parameter carries "=<default>" iff that
\* same parameter has a default in the source.
C12_DefaultOnItsOwnParameter ==
    pc = "done" =>
        \A j \in 1..Len(AllArgs(node)) :
            \E i \in 1..Len(definition.arguments) :
                /\ StartsWith(definition.arguments[i], AllArgs(node)[j].arg)
                /\ Contains(definition.arguments[i], "=") <=> HasSourceDefault(node, j)

(***************************************************************************)
(* Specification SpecTypes: type_summary() on function nodes with every    *)
(* mix of annotated and unannotated parameters, a parameter named self at  *)
(* any one position, and on a class node.                                  *)
(***************************************************************************)
MaxTypeArgs == 3

\* The n parameters: parameter selfpos (0: none) is named self, parameter k
\* is annotated iff ann[k]; the first np are positional-only, the next na
\* plain, the rest keyword-only.
TypeNode(kind, nm, n, ann, selfpos, np, na, vararg, kwarg, returns) ==
    LET all == [k \in 1..n |->
                   Arg(IF k = selfpos THEN SELF ELSE <<PlainLetters[k]>>,
                       IF ann[k] THEN NameExpr(INT) ELSE None)]
    IN  Node(kind, nm,
             Arguments_(SubSeq(all, 1, np), SubSeq(all, np + 1, np + na),
                        SubSeq(all, np + na + 1, n), vararg, kwarg, <<>>,
                        [k \in 1..(n - np - na) |-> None]),
             returns, <<>>, <<>>, None, <<>>, 1, 2, <<>>)

\* *args / **kwargs: absent, bare, annotated.
StarArgs(nm) == {None, Arg(nm, None), Arg(nm, NameExpr(INT))}

ClassNodes ==
    {Node("ClassDef", nm, NoArgs, None, <<>>, <<>>, None, <<>>, 1, 2, <<>>) :
        nm \in {<<"C">>, DUNDER_INIT}}

InitTypes ==
    /\ pc = "start"
    /\ disk = Nil /\ stdin = Nil /\ stdout = Nil /\ stderr = Nil /\ exit_code = Nil
    /\ \/ \E n \in 0..MaxTypeArgs :
            \E kind \in {"FunctionDef", "AsyncFunctionDef"}, nm \in {<<"f">>, DUNDER_INIT},
               ann \in [1..n -> BOOLEAN], selfpos \in 0..n,
               split \in {x \in (0..n) \X (0..n) : x[1] + x[2] <= n},
               vararg \in StarArgs(<<"v">>), kwarg \in StarArgs(<<"w">>),
               returns \in {None, NameExpr(INT)} :
                 node = TypeNode(kind, nm, n, ann, selfpos, split[1], split[2],
                                 vararg, kwarg, returns)
       \/ node \in ClassNodes
    /\ summary = Nil
    /\ name = Nil /\ symbols = Nil /\ matched = Nil
    /\ module = Nil /\ options = Nil /\ nodes = Nil /\ results = Nil
    /\ flags = Nil /\ accepted = Nil /\ definition = Nil

DoTypeSummary ==
    /\ pc = "start"
    /\ summary' = type_summary(node)
    /\ pc' = "done"
    /\ UNCHANGED <<disk, stdin, stdout, stderr, exit_code,
                   name, symbols, matched, module, options, nodes, results,
                   node, flags, accepted, definition>>

NextTypes == DoTypeSummary

SpecTypes == InitTypes /\ [][NextTypes]_vars

IsFunction(n) == n.kind \in {"FunctionDef", "AsyncFunctionDef"}
ReturnAnnotated(n) == n.returns.e # "None"
\* Parameter k of all_args is the leading parameter and is named self.
LeadingSelf(n, k) == k = 1 /\ AllArgs(n)[1].arg = SELF
\* Every positional-only, plain and keyword-only parameter other than a
\* leading self is annotated.
OthersAnnotated(n) ==
    \A k \in 1..Len(AllArgs(n)) :
        LeadingSelf(n, k) \/ AllArgs(n)[k].annotation.e # "None"

\* C8: fullyTyped holds iff every positional-only, plain and keyword-only
\* parameter other than a leading self is annotated and the return is
\* annotated, the return not being required of a function named __init__.
C8_FullyTyped ==
    (pc = "done" /\ IsFunction(node)) =>
        (summary.fully <=>
            (OthersAnnotated(node)
                /\ (ReturnAnnotated(node) \/ node.name = DUNDER_INIT)))

\* def __init__(self, a: int): fully typed without a return annotation.
C8_Witness ==
    /\ pc = "done" /\ IsFunction(node) /\ summary.fully
    /\ node.name = DUNDER_INIT /\ ~ReturnAnnotated(node)
    /\ Len(AllArgs(node)) = 2 /\ LeadingSelf(node, 1)

\* C9 as stated: fullyTyped implies partiallyTyped unless the function has
\* no parameters and an annotated return.
C9_AsStated ==
    (pc = "done" /\ IsFunction(node)) =>
        (summary.fully =>
            (summary.partially \/ (Len(AllArgs(node)) = 0 /\ ReturnAnnotated(node))))

\* The function is named __init__, has no return annotation and has no
\* parameter other than a leading self.
BareInit(n) ==
    /\ n.name = DUNDER_INIT /\ ~ReturnAnnotated(n)
    /\ \A k \in 1..Len(AllArgs(n)) : LeadingSelf(n, k)

\* C9 amended: fullyTyped implies partiallyTyped unless the function is
\* named __init__, has no return annotation and no parameter other than a
\* leading self.
C9_FullyImpliesPartially ==
    (pc = "done" /\ IsFunction(node)) =>
        (summary.fully => (summary.partially \/ BareInit(node)))

\* def __init__(self): fully typed and not partially typed.
C9_Witness ==
    /\ pc = "done" /\ IsFunction(node) /\ BareInit(node)
    /\ Len(AllArgs(node)) = 1 /\ summary.fully /\ ~summary.partially

\* Some positional-only, plain or keyword-only parameter other than a
\* leading self is annotated.
SomeAnnotated(n) ==
    \E k \in 1..Len(AllArgs(n)) :
        ~LeadingSelf(n, k) /\ AllArgs(n)[k].annotation.e # "None"

\* C26: partiallyTyped holds iff the return is annotated or a parameter
\* other than a leading self is annotated (*args, **kwargs and a leading
\* self never count); --typed accepts exactly the partiallyTyped functions
\* and --untyped exactly the other functions.
C26_PartiallyTyped ==
    (pc = "done" /\ IsFunction(node)) =>
        /\ summary.partially <=> (ReturnAnnotated(node) \/ SomeAnnotated(node))
        /\ filter_node(node, {"typed"}) <=> summary.partially
        /\ filter_node(node, {"untyped"}) <=> ~summary.partially

\* def f(self: int, *v: int, **w: int): annotations that do not count; the
\* function is untyped.
C26_Witness ==
    /\ pc = "done" /\ IsFunction(node)
    /\ Len(AllArgs(node)) = 1 /\ LeadingSelf(node, 1)
    /\ AllArgs(node)[1].annotation.e # "None"
    /\ node.args.vararg.e # "None" /\ node.args.vararg.annotation.e # "None"
    /\ node.args.kwarg.e # "None" /\ node.args.kwarg.annotation.e # "None"
    /\ ~summary.partially
    /\ filter_node(node, {"untyped"}) /\ ~filter_node(node, {"typed"})

(***************************************************************************)
(* Specification SpecFilter: filter_node() on function and class nodes of  *)
(* every kind, visibility, documentation and typing, under every set of    *)
(* at most MaxActiveFlags filter options.                                  *)
(***************************************************************************)
MaxActiveFlags == 3
MaxFilterArgs == 1

\* public, private, dunder, __init__, and the names made of two and of
\* three underscores
FilterNames ==
    {<<"f">>, <<"_", "p">>, <<"_", "_", "d", "_", "_">>, DUNDER_INIT,
     <<"_", "_">>, <<"_", "_", "_">>}
\* no docstring, a docstring, an empty docstring
FilterDocs == {None, DocString(<<"d">>), DocString(<<>>)}

WithDoc(n, doc) == [n EXCEPT !.doc = doc]

InitFilter ==
    /\ pc = "start"
    /\ disk = Nil /\ stdin = Nil /\ stdout = Nil /\ stderr = Nil /\ exit_code = Nil
    /\ flags \in {fl \in SUBSET FilterOptions : Cardinality(fl) <= MaxActiveFlags}
    /\ \E nm \in FilterNames, doc \in FilterDocs :
          \/ \E n \in 0..MaxFilterArgs :
               \E kind \in {"FunctionDef", "AsyncFunctionDef"},
                  ann \in [1..n -> BOOLEAN], selfpos \in 0..n,
                  returns \in {None, NameExpr(INT)} :
                    node = WithDoc(TypeNode(kind, nm, n, ann, selfpos, 0, n,
                                            None, None, returns), doc)
          \/ node = Node("ClassDef", nm, NoArgs, None, <<>>, <<>>, doc, <<>>, 1, 2, <<>>)
    /\ accepted = Nil
    /\ name = Nil /\ symbols = Nil /\ matched = Nil
    /\ module = Nil /\ options = Nil /\ nodes = Nil /\ results = Nil
    /\ summary = Nil /\ definition = Nil

DoFilterNode ==
    /\ pc = "start"
    /\ accepted' = filter_node(node, flags)
    /\ pc' = "done"
    /\ UNCHANGED <<disk, stdin, stdout, stderr, exit_code,
                   name, symbols, matched, module, options, nodes, results,
                   node, flags, summary, definition>>

NextFilter == DoFilterNode

SpecFilter == InitFilter /\ [][NextFilter]_vars

\* C7: the filter accepts a declaration iff each active option, taken alone,
\* accepts it (AND across the options, none overriding another); so async
\* with class accepts nothing and typed with async accepts exactly the
\* typed async functions.
C7_FilterIsConjunction ==
    pc = "done" =>
        /\ accepted <=> \A f \in flags : filter_node(node, {f})
        /\ {"async_", "class_"} \subseteq flags => ~accepted
        /\ flags = {"typed", "async_"} =>
              (accepted <=> (node.kind = "AsyncFunctionDef"
                             /\ type_summary(node).partially))

\* --typed --async accepted a typed async function.
C7_Witness ==
    pc = "done" /\ flags = {"typed", "async_"} /\ accepted = TRUE

\* The name matches the glob __*__: a prefix "__", any run of characters,
\* then a suffix "__" of its own.
MatchesDunderGlob(nm) == StarOnly(nm, 1, <<"_", "_", "*", "_", "_">>, 1)

\* C25: --dunder accepts iff the name matches the glob __*__; --public
\* accepts iff the name has no leading "_" or is dunder; --private accepts
\* iff the name has a leading "_" and is not dunder; so every name is
\* accepted by exactly one of --public and --private.
C25_VisibilityByDunderGlob ==
    pc = "done" =>
        /\ flags = {"dunder"} => (accepted <=> MatchesDunderGlob(node.name))
        /\ flags = {"public"} =>
              (accepted <=> (~StartsWith(node.name, <<"_">>)
                             \/ MatchesDunderGlob(node.name)))
        /\ flags = {"private"} =>
              (accepted <=> (StartsWith(node.name, <<"_">>)
                             /\ ~MatchesDunderGlob(node.name)))
        /\ filter_node(node, {"public"}) # filter_node(node, {"private"})

\* C27: with no_init active, alone or with other options, a declaration is
\* accepted only if it is a function, is not named __init__ and is fully
\* typed (every parameter other than a leading self and the return are
\* annotated); the accepted declarations are those accepted with
\* fully_typed in the place of no_init, less the ones named __init__.
C27_NoInit ==
    (pc = "done" /\ "no_init" \in flags) =>
        /\ accepted =>
              /\ IsFunction(node) /\ node.name # DUNDER_INIT
              /\ OthersAnnotated(node) /\ ReturnAnnotated(node)
        /\ accepted <=>
              /\ filter_node(node, (flags \ {"no_init"}) \cup {"fully_typed"})
              /\ node.name # DUNDER_INIT
        /\ node.kind = "ClassDef" \/ node.name = DUNDER_INIT => ~accepted

\* A fully typed __init__, which fully_typed alone accepts, is rejected.
C27_Witness ==
    /\ pc = "done" /\ flags = {"no_init"} /\ accepted = FALSE
    /\ IsFunction(node) /\ node.name = DUNDER_INIT
    /\ filter_node(node, {"fully_typed"})

(***************************************************************************)
(* Specification SpecSearch: search() over one file.  The files are built  *)
(* from one-line statements, functions and classes; a file has at most     *)
(* MaxStmts statements (a class counts one plus its members).  Two         *)
(* families: files with up to MaxDecorators decorators per declaration and *)
(* class docstrings, searched for everything; and undecorated files with   *)
(* names a and b, searched for up to MaxSymbols patterns.                  *)
(***************************************************************************)
MaxStmts == 3
MaxDecorators == 1
MaxSymbols == 3

FuncStmt(kind, nm, decorators) ==
    Stmt(kind, nm, decorators, NoArgs, None, <<>>, <<>>, None, <<PassStmt>>)
ClassStmt(nm, decorators, doc, body) ==
    Stmt("ClassDef", nm, decorators, NoArgs, None, <<>>, <<>>, doc, body)

FuncStmts(kinds, names, maxdec) ==
    {FuncStmt(kind, nm, d) : kind \in kinds, nm \in names, d \in 0..maxdec}

\* What a class body holds: one-line statements, methods, a nested class.
MemberStmts(kinds, names, maxdec) ==
    {PassStmt, ClassStmt(<<"a">>, 0, None, <<PassStmt>>)}
        \cup FuncStmts(kinds, names, maxdec)

\* The top-level statements that take k statements of the budget.
TopStmts(k, kinds, names, maxdec, docs) ==
    IF k = 1 THEN {PassStmt} \cup FuncStmts(kinds, names, maxdec)
    ELSE {ClassStmt(nm, d, doc, body) :
            nm \in names, d \in 0..maxdec, doc \in docs,
            body \in [1..(k - 1) -> MemberStmts(kinds, names, maxdec)]}

RECURSIVE ModulesOfSize(_, _, _, _, _)
ModulesOfSize(n, kinds, names, maxdec, docs) ==
    IF n = 0 THEN {<<>>}
    ELSE UNION {{<<st>> \o rest :
                    st \in TopStmts(k, kinds, names, maxdec, docs),
                    rest \in ModulesOfSize(n - k, kinds, names, maxdec, docs)}
                : k \in 1..n}

Modules(kinds, names, maxdec, docs) ==
    UNION {ModulesOfSize(n, kinds, names, maxdec, docs) : n \in 1..MaxStmts}

SearchNames == {<<"a">>, <<"b">>}
SearchPatterns == {<<"*">>, <<"a", ".", "*">>, <<"*", ".", "a">>}
EVERYTHING == <<<<"*">>, <<"*", ".", "*">>>>
Options(signatures, docs) == [signatures |-> signatures, docs |-> docs]
\* Everything, verbatim or as signatures; and a filter without any symbol.
SearchCases ==
    {[symbols |-> EVERYTHING, options |-> o, flags |-> {}] :
        o \in {Options(FALSE, FALSE), Options(TRUE, FALSE), Options(TRUE, TRUE)}}
    \cup {[symbols |-> <<>>, options |-> Options(FALSE, FALSE), flags |-> {"async_"}]}

InitSearch ==
    /\ pc = "start"
    /\ disk = Nil /\ stdin = Nil /\ stdout = Nil /\ stderr = Nil /\ exit_code = Nil
    /\ \/ /\ module \in Modules({"FunctionDef", "AsyncFunctionDef"}, {<<"a">>},
                                  MaxDecorators, {None, DocString(<<"x", NL, "y">>)})
          /\ \E c \in SearchCases :
                symbols = c.symbols /\ options = c.options /\ flags = c.flags
       \/ /\ module \in Modules({"FunctionDef"}, SearchNames, 0, {None})
          /\ symbols \in SeqsUpTo(SearchPatterns, MaxSymbols)
          /\ options = Options(FALSE, FALSE)
          /\ flags = {}
    /\ nodes = Nil /\ results = Nil
    /\ name = Nil /\ matched = Nil /\ node = Nil
    /\ summary = Nil /\ accepted = Nil /\ definition = Nil

\* search() lines 124-141: filters without symbols search for everything.
EffectiveSymbols ==
    IF (options.signatures \/ flags # {}) /\ symbols = <<>> THEN <<<<"*">>>>
    ELSE symbols

\* The matches that filter_node lets through, in order.
Kept(found) == SelectSeq(found, LAMBDA f : filter_node(f.node, flags))

\* search() lines 199-251 for one file: locate, filter, extract.
Search ==
    /\ pc = "start"
    /\ LET code == SourceCode(module)
           found == find_symbol_nodes(Parse(module, 1), EffectiveSymbols)
           kept == Kept(found)
       IN  /\ nodes' = found
           /\ results' =
                [k \in 1..Len(kept) |->
                   LET r == code_for_node(code, kept[k].node, kept[k].class_name,
                                          options.signatures, options.docs)
                   IN  [snippet |-> r[1], line_no |-> r[2],
                        class_name |-> kept[k].class_name]]
    /\ pc' = "done"
    /\ UNCHANGED <<disk, stdin, stdout, stderr, exit_code,
                   name, symbols, matched, module, options, node, flags,
                   summary, accepted, definition>>

NextSearch == Search

SpecSearch == InitSearch /\ [][NextSearch]_vars

Verbatim == pc = "done" /\ ~options.signatures
Decorated(n) == n.decorator_list # <<>>
\* The line on which the declaration's text starts.
FirstLine(n) == IF Decorated(n) THEN n.decorator_list[1] ELSE n.lineno

\* C1 as stated: in verbatim mode the reported line is the line of the def /
\* async def / class keyword, never the line of a decorator.
C1_AsStated ==
    Verbatim =>
        \A k \in 1..Len(results) : results[k].line_no = Kept(nodes)[k].node.lineno

\* C1: in verbatim mode the reported line is the line of the first line of
\* the returned text: the first decorator's line for a decorated
\* declaration, the line of the def / async def / class keyword otherwise.
C1_ReportedLineIsFirstLine ==
    Verbatim =>
        \A k \in 1..Len(results) :
            LET n == Kept(nodes)[k].node
            IN  /\ results[k].line_no = FirstLine(n)
                /\ Decorated(n) => results[k].line_no < n.lineno
                /\ SourceLines(module, 0)[results[k].line_no]
                      = Head(Split(results[k].snippet, NL))

\* A decorated declaration was extracted verbatim.
C1_Witness ==
    /\ Verbatim
    /\ \E k \in 1..Len(results) :
          /\ Decorated(Kept(nodes)[k].node)
          /\ results[k].line_no = Kept(nodes)[k].node.decorator_list[1]

\* C2: in verbatim mode the returned text is exactly the file's lines from
\* the first decorator's line (the definition line without decorators)
\* through the end line, in order, nothing before or after, and a method
\* keeps its indentation.
C2_ExactSourceLines ==
    Verbatim =>
        \A k \in 1..Len(results) :
            LET n == Kept(nodes)[k].node
                lines == SourceLines(module, 0)
            IN  /\ Split(results[k].snippet, NL)
                      = SubSeq(lines, FirstLine(n), n.end_lineno)
                /\ results[k].class_name # <<>> =>
                      StartsWith(results[k].snippet, INDENT4)

\* A decorated method with lines before and after it was extracted.
C2_Witness ==
    /\ Verbatim
    /\ \E k \in 1..Len(results) :
          LET n == Kept(nodes)[k].node
          IN  /\ results[k].class_name # <<>>
              /\ Decorated(n)
              /\ n.end_lineno < Len(SourceLines(module, 0))
              /\ Len(Split(results[k].snippet, NL)) = 3

\* The declarations of the file that the locator considers: the top-level
\* functions and classes, and the functions directly in a top-level class.
Declarations ==
    LET body == Parse(module, 1)
        Declares(n) == n.kind \in {"ClassDef", "FunctionDef", "AsyncFunctionDef"}
        top == {i \in 1..Len(body) : Declares(body[i])}
    IN  {[lineno |-> body[i].lineno, qname |-> body[i].name, class_name |-> <<>>] :
            i \in top}
        \cup UNION {{[lineno |-> body[i].body[j].lineno,
                      qname |-> Qualified(body[i].name, body[i].body[j].name),
                      class_name |-> body[i].name] :
                        j \in {m \in 1..Len(body[i].body) :
                                 body[i].body[m].kind \in {"FunctionDef", "AsyncFunctionDef"}}} :
                    i \in {c \in top : body[c].kind = "ClassDef"}}

PatternsMatching(qname) ==
    {k \in 1..Len(EffectiveSymbols) : MatchesSearch(qname, EffectiveSymbols[k])}

\* C6: the locator lists every declaration that at least one pattern matches
\* exactly once, in source order: the lines of the listed declarations
\* strictly increase (a class, then its methods in body order, then what
\* follows the class).
C6_EachMatchOnceInOrder ==
    pc = "done" =>
        /\ \A k \in 1..(Len(nodes) - 1) : nodes[k].node.lineno < nodes[k + 1].node.lineno
        /\ {[lineno |-> nodes[k].node.lineno, class_name |-> nodes[k].class_name] :
                k \in 1..Len(nodes)}
             = {[lineno |-> d.lineno, class_name |-> d.class_name] :
                    d \in {x \in Declarations : PatternsMatching(x.qname) # {}}}

\* A class, one of its methods that two patterns match, and a declaration
\* after the class were located.
C6_Witness ==
    /\ pc = "done"
    /\ Len(nodes) >= 3
    /\ \E k \in 2..(Len(nodes) - 1) :
          /\ nodes[k].class_name # <<>>
          /\ nodes[k + 1].class_name = <<>>
          /\ Cardinality(PatternsMatching(Qualified(nodes[k].class_name,
                                                    nodes[k].node.name))) = 2

(***************************************************************************)
(* Specification SpecClass: class_definition() on class nodes with up to   *)
(* MaxBases bases (names and other expressions) and up to MaxKeywords      *)
(* keywords of different names (metaclass among them, its value a name or  *)
(* another expression).                                                    *)
(***************************************************************************)
MaxBases == 2
MaxKeywords == 2

ClassBases == {NameExpr(<<"A">>), NameExpr(<<"D">>), CallExpr}
ClassKeywords ==
    {Keyword(<<"x">>, NameExpr(<<"A">>)), Keyword(<<"y">>, ONE),
     Keyword(METACLASS, NameExpr(<<"M">>)), Keyword(METACLASS, CallExpr)}

\* class C(bases, keywords): pass
ClassNode(bases, keywords) ==
    Node("ClassDef", <<"C">>, NoArgs, None, bases, keywords, None, <<>>, 1, 2, <<>>)

InitClass ==
    /\ pc = "start"
    /\ disk = Nil /\ stdin = Nil /\ stdout = Nil /\ stderr = Nil /\ exit_code = Nil
    /\ \E bases \in SeqsUpTo(ClassBases, MaxBases),
          keywords \in SeqsUpTo(ClassKeywords, MaxKeywords) :
            /\ \A i, j \in 1..Len(keywords) : i # j => keywords[i].arg # keywords[j].arg
            /\ node = ClassNode(bases, keywords)
    /\ definition = Nil
    /\ name = Nil /\ symbols = Nil /\ matched = Nil
    /\ module = Nil /\ options = Nil /\ nodes = Nil /\ results = Nil
    /\ flags = Nil /\ summary = Nil /\ accepted = Nil

DoClassDefinition ==
    /\ pc = "start"
    /\ definition' = [text |-> class_definition(node)]
    /\ pc' = "done"
    /\ UNCHANGED <<disk, stdin, stdout, stderr, exit_code,
                   name, symbols, matched, module, options, nodes, results,
                   node, flags, summary, accepted>>

NextClass == DoClassDefinition

SpecClass == InitClass /\ [][NextClass]_vars

\* The items the header lists: the simple-name bases in order, one
\* name=... per keyword other than metaclass, then metaclass=<its name>,
\* the name extracted from the value as annotation_definition does.
HeaderItems(class_def) ==
    LET names == SelectSeq(class_def.bases, LAMBDA b : b.e = "Name")
        others == SelectSeq(class_def.keywords, LAMBDA k : k.arg # METACLASS)
        metas == SelectSeq(class_def.keywords, LAMBDA k : k.arg = METACLASS)
    IN  [k \in 1..Len(names) |-> names[k].id]
        \o [k \in 1..Len(others) |-> others[k].arg \o EQ_ELLIPSIS]
        \o [k \in 1..Len(metas) |->
               METACLASS \o <<"=">> \o annotation_definition(metas[k].value)]

\* C13: the class header is "class <name>", followed only when an item is
\* rendered by the parenthesised comma-separated items: simple-name bases,
\* name=... placeholders, metaclass=<name> last; never "class C()".
C13_ClassHeader ==
    pc = "done" =>
        definition.text =
            CLASS_KW \o node.name
                \o (IF HeaderItems(node) = <<>> THEN <<>>
                    ELSE <<"(">> \o Join(HeaderItems(node), COMMA_SP) \o <<")">>)

(***************************************************************************)
(* Specification SpecAnnotation: annotation_definition() on every          *)
(* annotation expression of at most MaxExprSize nodes built from names,    *)
(* subscripts, tuples and other shapes.                                    *)
(***************************************************************************)
MaxExprSize == 5

STR == <<"s", "t", "r">>
\* int, str, a string constant, any other shape; () is the empty tuple.
LeafExprs ==
    {NameExpr(INT), NameExpr(STR), ConstantExpr(<<"x">>, TRUE, TRUE), CallExpr,
     TupleExpr(<<>>)}

RECURSIVE ExprsOfSize(_)
RECURSIVE ExprSeqsOfSize(_)
\* The expressions of exactly n nodes.
ExprsOfSize(n) ==
    IF n = 1 THEN LeafExprs
    ELSE UNION {{SubscriptExpr(v, sl) : v \in ExprsOfSize(a), sl \in ExprsOfSize(n - 1 - a)}
                    : a \in 1..(n - 2)}
         \cup {TupleExpr(elts) : elts \in ExprSeqsOfSize(n - 1)}

\* The sequences of expressions of n nodes in all.
ExprSeqsOfSize(n) ==
    IF n = 0 THEN {<<>>}
    ELSE UNION {{<<x>> \o rest : x \in ExprsOfSize(k), rest \in ExprSeqsOfSize(n - k)}
                    : k \in 1..n}

InitAnnotation ==
    /\ pc = "start"
    /\ disk = Nil /\ stdin = Nil /\ stdout = Nil /\ stderr = Nil /\ exit_code = Nil
    /\ \E n \in 1..MaxExprSize : node \in ExprsOfSize(n)
    /\ definition = Nil
    /\ name = Nil /\ symbols = Nil /\ matched = Nil
    /\ module = Nil /\ options = Nil /\ nodes = Nil /\ results = Nil
    /\ flags = Nil /\ summary = Nil /\ accepted = Nil

DoAnnotationDefinition ==
    /\ pc = "start"
    /\ definition' = [text |-> annotation_definition(node)]
    /\ pc' = "done"
    /\ UNCHANGED <<disk, stdin, stdout, stderr, exit_code,
                   name, symbols, matched, module, options, nodes, results,
                   node, flags, summary, accepted>>

NextAnnotation == DoAnnotationDefinition

SpecAnnotation == InitAnnotation /\ [][NextAnnotation]_vars

\* C14: a name renders as itself, a subscript as Base[slice] and a tuple as
\* (a, b, ...) with the parts rendered by the same rules, every other shape
\* as "?", also inside a subscript or tuple.
C14_AnnotationRendering ==
    pc = "done" =>
        /\ node.e = "Name" => definition.text = node.id
        /\ node.e = "Subscript" =>
              definition.text = annotation_definition(node.value) \o <<"[">>
                                  \o annotation_definition(node.slice) \o <<"]">>
        /\ node.e = "Tuple" =>
              definition.text =
                  <<"(">> \o Join([k \in 1..Len(node.elts) |->
                                      annotation_definition(node.elts[k])], COMMA_SP)
                      \o <<")">>
        /\ node.e \notin {"Name", "Subscript", "Tuple"} => definition.text = <<"?">>

\* List[(int, ?)]-like: a subscript whose slice is a tuple holding a name
\* and an unsupported shape was rendered.
C14_Witness ==
    /\ pc = "done"
    /\ node.e = "Subscript" /\ node.slice.e = "Tuple"
    /\ \E i, j \in 1..Len(node.slice.elts) :
          node.slice.elts[i].e = "Name" /\ node.slice.elts[j].e = "Call"
    /\ definition.text = INT \o <<"[", "(">> \o STR \o COMMA_SP \o <<"?", ")", "]">>

(***************************************************************************)
(* Specification SpecShapes: the signature of a declaration whose          *)
(* annotation, default, base and keyword expressions take every shape:     *)
(* def f(a: <annotation> = <default>) -> <returns>, and the classes of     *)
(* SpecClass.  The outcome is the text returned or the exception raised.   *)
(***************************************************************************)
ShapeAnnotations ==
    {None, NameExpr(INT), ConstantExpr(<<"x">>, TRUE, TRUE), CallExpr,
     SubscriptExpr(NameExpr(INT), CallExpr), TupleExpr(<<CallExpr>>)}
\* no default, 1, "x", a name, a call, [1], {[]: 1}, and the constants
\* whose value is false: 0, None, "", []
ShapeDefaults ==
    {None, ONE, ConstantExpr(<<"x">>, TRUE, TRUE), NameExpr(<<"A">>), CallExpr,
     [e |-> "List", text |-> <<"[", "1", "]">>, truthy |-> TRUE], UnhashableExpr,
     ConstantExpr(<<"0">>, FALSE, FALSE), ConstantExpr(NONE_TEXT, FALSE, FALSE),
     ConstantExpr(<<>>, FALSE, TRUE),
     [e |-> "List", text |-> <<"[", "]">>, truthy |-> FALSE]}

ShapeNode(kind, annotation, default, returns) ==
    Node(kind, <<"f">>,
         Arguments_(<<>>, <<Arg(<<"a">>, annotation)>>, <<>>, None, None,
                    IF default.e = "None" THEN <<>> ELSE <<default>>, <<>>),
         returns, <<>>, <<>>, None, <<>>, 1, 2, <<>>)

InitShapes ==
    /\ pc = "start"
    /\ disk = Nil /\ stdin = Nil /\ stdout = Nil /\ stderr = Nil /\ exit_code = Nil
    /\ \/ \E kind \in {"FunctionDef", "AsyncFunctionDef"},
             annotation \in ShapeAnnotations, default \in ShapeDefaults,
             returns \in ShapeAnnotations :
                node = ShapeNode(kind, annotation, default, returns)
       \/ \E bases \in SeqsUpTo(ClassBases, MaxBases),
             keywords \in SeqsUpTo(ClassKeywords \cup {Keyword(<<>>, CallExpr)},
                                   MaxKeywords) :
                node = ClassNode(bases, keywords)
    /\ definition = Nil
    /\ name = Nil /\ symbols = Nil /\ matched = Nil
    /\ module = Nil /\ options = Nil /\ nodes = Nil /\ results = Nil
    /\ flags = Nil /\ summary = Nil /\ accepted = Nil

\* code_for_node lines 45-54: the definition of a function or a class.
DoSignature ==
    /\ pc = "start"
    /\ definition' =
          IF node.kind = "ClassDef"
          THEN [raised |-> Nil, text |-> class_definition(node)]
          ELSE IF function_definition_raises(node) # Nil
          THEN [raised |-> function_definition_raises(node), text |-> Nil]
          ELSE [raised |-> Nil, text |-> function_definition(node)]
    /\ pc' = "done"
    /\ UNCHANGED <<disk, stdin, stdout, stderr, exit_code,
                   name, symbols, matched, module, options, nodes, results,
                   node, flags, summary, accepted>>

NextShapes == DoSignature

SpecShapes == InitShapes /\ [][NextShapes]_vars

\* C15: rendering the signature of a function or class never raises,
\* whatever the shape of its annotation, default, base and keyword
\* expressions.
C15_RenderingNeverRaises ==
    pc = "done" => definition.raised = Nil

\* The default as the signature is to show it: a constant or a literal
\* container itself (a string in double quotes), a name's identifier, and
\* "..." for any other expression.
RenderedDefault(default) ==
    IF default.e = "Constant" /\ default.isstr THEN <<"\"">> \o default.text \o <<"\"">>
    ELSE IF default.e \in {"Constant", "List"} THEN default.text
    ELSE IF default.e = "Name" THEN default.id
    ELSE ELLIPSIS

\* C28: a parameter with a default is rendered with =<default>, the
\* default being the constant itself, the identifier of a name, or "..."
\* for any other expression; it is never rendered without its default.
C28_DefaultRendered ==
    /\ pc = "done" /\ IsFunction(node) /\ definition.raised = Nil
    /\ node.args.defaults # <<>>
    => LET arg == node.args.args[1]
           def_ == IF node.kind = "AsyncFunctionDef" THEN ASYNC_DEF_KW ELSE DEF_KW
       IN  definition.text =
               def_ \o node.name \o <<"(">> \o arg.arg
                 \o (IF arg.annotation.e # "None"
                     THEN COLON_SP \o annotation_definition(arg.annotation) ELSE <<>>)
                 \o <<"=">> \o RenderedDefault(node.args.defaults[1]) \o <<")">>
                 \o (IF node.returns.e # "None"
                     THEN ARROW \o annotation_definition(node.returns) ELSE <<>>)

(***************************************************************************)
(* Specification SpecImports: import_line_for_function() for a file mod.py *)
(* in a directory at most MaxPathDepth deep and a list of at most MaxRoots *)
(* root directories, each at most MaxPathDepth deep.                       *)
(***************************************************************************)
MaxPathDepth == 2
MaxRoots == 2

PathComponents == {<<"r">>, <<"p">>}
MOD_PY == <<"m", "o", "d", ".", "p", "y">>
FOO == <<"f", "o", "o">>
Directories == SeqsUpTo(PathComponents, MaxPathDepth)

InitImports ==
    /\ pc = "start"
    /\ disk = Nil /\ stdin = Nil /\ stdout = Nil /\ stderr = Nil /\ exit_code = Nil
    /\ name = FOO
    /\ \E dir \in Directories, roots \in SeqsUpTo(Directories, MaxRoots) :
          options = [filepath |-> dir \o <<MOD_PY>>, possible_root_dirs |-> roots]
    /\ results = Nil
    /\ symbols = Nil /\ matched = Nil /\ module = Nil /\ nodes = Nil /\ node = Nil
    /\ flags = Nil /\ summary = Nil /\ accepted = Nil /\ definition = Nil

DoImportLine ==
    /\ pc = "start"
    /\ results' = <<import_line_for_function(name, options.filepath,
                                             options.possible_root_dirs)>>
    /\ pc' = "done"
    /\ UNCHANGED <<disk, stdin, stdout, stderr, exit_code,
                   name, symbols, matched, module, options, nodes,
                   node, flags, summary, accepted, definition>>

NextImports == DoImportLine

SpecImports == InitImports /\ [][NextImports]_vars

\* The roots, by position in the list, under which the file lies.
RootsHolding ==
    {k \in 1..Len(options.possible_root_dirs) :
        IsRelativeTo(options.filepath, options.possible_root_dirs[k])}

\* C16: the roots are tried in the given order; the first root that holds
\* the file gives "from <directories below that root, dotted>.<stem> import
\* <name>" and no later root is consulted; when none holds it (or the list
\* is empty) the result is "from .<stem> import <name>".
C16_FirstRootWins ==
    pc = "done" =>
        LET roots == options.possible_root_dirs
            dir == SubSeq(options.filepath, 1, Len(options.filepath) - 1)
            mod == <<"m", "o", "d">>
        IN  IF RootsHolding = {}
            THEN /\ results[1].import_line = FROM \o <<".">> \o mod \o IMPORT \o name
                 /\ results[1].consulted = Len(roots)
            ELSE LET k == CHOOSE h \in RootsHolding : \A j \in RootsHolding : h <= j
                 IN  /\ results[1].import_line =
                           FROM \o Join(SubSeq(dir, Len(roots[k]) + 1, Len(dir)) \o <<mod>>,
                                        <<".">>)
                                \o IMPORT \o name
                     /\ results[1].consulted = k

\* Two roots of different depth hold the file; the first one was used.
C16_Witness ==
    /\ pc = "done"
    /\ Cardinality(RootsHolding) = 2
    /\ options.possible_root_dirs[1] # options.possible_root_dirs[2]
    /\ results[1].consulted = 1

(***************************************************************************)
(* cli.search over several files and the cli command.                      *)
(*                                                                         *)
(* A file on disk is a record: its path, its text, whether ast.parse       *)
(* accepts the text (it raises SyntaxError otherwise), the statements it   *)
(* finds, and the number of times the command wrote the file.  The output  *)
(* streams are sequences of echoed items; an item of standard output is a  *)
(* text, an item of standard error a record holding the message.  With    *)
(* --csv, --tsv, --json or --nl an item of standard output is one chunk    *)
(* written by to_output, line ends included.  The options --imports,       *)
(* --module and --stdlib are not given.                                    *)
(***************************************************************************)
File(path, text, parses, body) ==
    [path |-> path, text |-> text, parses |-> parses, body |-> body, writes |-> 0]

SourceFile(path, stmts) == File(path, SourceCode(stmts), TRUE, stmts)
\* "def a(" does not parse.
BrokenFile(path) == File(path, DEF_KW \o <<"a", "(">>, FALSE, <<>>)

RECURSIVE IntStr(_)
\* str(n) of a natural number.
IntStr(n) ==
    LET digit == <<"0", "1", "2", "3", "4", "5", "6", "7", "8", "9">>[(n % 10) + 1]
    IN  IF n < 10 THEN <<digit>> ELSE IntStr(n \div 10) \o <<digit>>

FILE_BIT == <<"#", " ", "F", "i", "l", "e", ":">>
CLASS_BIT == <<"C", "l", "a", "s", "s", ":">>
LINE_BIT == <<"L", "i", "n", "e", ":">>

\* output_identifier_line (lines 226-233), with no_file not set.
IdentifierLine(path, class_name, line_no) ==
    Join(<<FILE_BIT, path>>
            \o (IF class_name # <<>> THEN <<CLASS_BIT, class_name>> ELSE <<>>)
            \o <<LINE_BIT, IntStr(line_no)>>,
         <<" ">>)

\* The Symbols search() yields for one file that parses (lines 212-251);
\* has_identifier tells whether output_identifier_line and symbol_id are
\* set (both are None with no_file).
FileSymbols(file, syms, opts, fl) ==
    LET kept == SelectSeq(find_symbol_nodes(Parse(file.body, 1), syms),
                          LAMBDA f : filter_node(f.node, fl))
    IN  [k \in 1..Len(kept) |->
           LET r == code_for_node(file.text, kept[k].node, kept[k].class_name,
                                  opts.signatures, opts.docs)
           IN  [snippet |-> r[1], line_no |-> r[2], filepath |-> file.path,
                has_identifier |-> ~opts.no_file,
                symbol_id |->
                    IF opts.no_file THEN <<>>
                    ELSE file.path \o <<":">> \o IntStr(r[2]),
                output_identifier_line |->
                    IF opts.no_file THEN <<>>
                    ELSE IdentifierLine(file.path, kept[k].class_name, r[2])]]

SyntaxErrorMessage(path) == [message |-> "# Syntax error in", path |-> path]

RECURSIVE SearchFrom(_, _, _, _, _)
\* A plausible slip: a file that does not parse ends the scan.
SearchFrom_StopAtError(files, i, syms, opts, fl) ==
    IF i > Len(files) THEN [symbols |-> <<>>, stderr |-> <<>>]
    ELSE IF ~files[i].parses
         THEN [symbols |-> <<>>,
               stderr |-> IF opts.silent THEN <<>> ELSE <<SyntaxErrorMessage(files[i].path)>>]
         ELSE LET rest == SearchFrom(files, i + 1, syms, opts, fl)
              IN  [symbols |-> FileSymbols(files[i], syms, opts, fl) \o rest.symbols,
                   stderr |-> rest.stderr]

\* The loop of search() (lines 199-251) from the i-th file on: the Symbols
\* yielded and the messages written to standard error.
SearchFrom(files, i, syms, opts, fl) ==
    IF i > Len(files) THEN [symbols |-> <<>>, stderr |-> <<>>]
    ELSE LET rest == SearchFrom(files, i + 1, syms, opts, fl)
         IN  IF ~files[i].parses
             THEN [symbols |-> rest.symbols,
                   stderr |-> (IF opts.silent THEN <<>>
                               ELSE <<SyntaxErrorMessage(files[i].path)>>) \o rest.stderr]
             ELSE [symbols |-> FileSymbols(files[i], syms, opts, fl) \o rest.symbols,
                   stderr |-> rest.stderr]

\* search(): filters without symbols search for everything (lines 124-141).
SearchSymbols(files, syms, opts, fl) ==
    SearchFrom(files, 1,
               IF (opts.signatures \/ fl # {}) /\ syms = <<>> THEN <<<<"*">>>> ELSE syms,
               opts, fl)

USAGE == <<"U", "s", "a", "g", "e", ":">>

ClickException(message) == [message |-> message, path |-> <<>>]

\* What one run of the command leaves behind.
Outcome(out, err, code, files, found) ==
    [stdout |-> out, stderr |-> err, exit_code |-> code, disk |-> files,
     results |-> found]

RECURSIVE Listing(_)
\* The regular output (lines 645-651): per result the identifier line when
\* it is set, the snippet and an empty line.
Listing(found) ==
    IF found = <<>> THEN <<>>
    ELSE (IF Head(found).has_identifier
          THEN <<Head(found).output_identifier_line>> ELSE <<>>)
         \o <<Head(found).snippet, <<>>>> \o Listing(Tail(found))

RECURSIVE JsonString(_)
\* The inside of the string literal json.dumps writes for s.
JsonString(s) ==
    IF s = <<>> THEN <<>>
    ELSE (CASE Head(s) = "\"" -> <<"\\", "\"">>
            [] Head(s) = "\\" -> <<"\\", "\\">>
            [] Head(s) = "\n" -> <<"\\", "n">>
            [] OTHER -> <<Head(s)>>) \o JsonString(Tail(s))

\* json.dumps({"id": id, "code": content}) (lines 44, 52).
JsonLine(id, content) ==
    <<"{", "\"", "i", "d", "\"", ":", " ", "\"">> \o JsonString(id)
        \o <<"\"", ",", " ", "\"", "c", "o", "d", "e", "\"", ":", " ", "\"">>
        \o JsonString(content) \o <<"\"", "}">>

\* A field as csv.writer writes it in the excel dialects: in quotes, with
\* the quotes inside doubled, when it holds the delimiter, a quote or a
\* line end.
CsvField(s, delimiter) ==
    IF \E k \in 1..Len(s) : s[k] \in {delimiter, "\"", "\n", "\r"}
    THEN <<"\"">> \o Replace(s, <<"\"">>, <<"\"", "\"">>) \o <<"\"">>
    ELSE s

\* writer.writerow([id, content]) (lines 61-65).
CsvRow(id, content, delimiter) ==
    CsvField(id, delimiter) \o <<delimiter>> \o CsvField(content, delimiter)
        \o <<"\r", "\n">>

\* The lines handed to to_output (lines 655-657) as far as the generator
\* gets: id_prefix + item.symbol_id raises TypeError at the first item whose
\* symbol_id is None.
RECURSIVE OutputLines(_, _)
OutputLines(found, id_prefix) ==
    IF found = <<>> THEN [lines |-> <<>>, raised |-> Nil]
    ELSE IF ~Head(found).has_identifier THEN [lines |-> <<>>, raised |-> "TypeError"]
    ELSE LET rest == OutputLines(Tail(found), id_prefix)
         IN  [lines |-> <<[id |-> id_prefix \o Head(found).symbol_id,
                           code |-> Head(found).snippet]>> \o rest.lines,
              raised |-> rest.raised]

\* to_output (lines 37-65): the chunks written for the lines consumed; the
\* closing bracket of the JSON list is written only when the generator did
\* not raise.
to_output(lines, format, raised) ==
    LET n == Len(lines)
    IN  CASE format = "nl" ->
                [k \in 1..n |-> JsonLine(lines[k].id, lines[k].code) \o <<"\n">>]
          [] format = "json" ->
                <<<<"[">>>>
                  \o [k \in 1..n |->
                         (IF k = 1 THEN <<>> ELSE <<",", "\n", " ">>)
                             \o JsonLine(lines[k].id, lines[k].code)]
                  \o (IF raised = Nil THEN <<<<"]", "\n">>>> ELSE <<>>)
          [] OTHER ->
                LET delimiter == IF format = "csv" THEN "," ELSE "\t"
                IN  <<CsvRow(<<"i", "d">>, <<"c", "o", "d", "e">>, delimiter)>>
                      \o [k \in 1..n |-> CsvRow(lines[k].id, lines[k].code, delimiter)]

\* An exception nothing catches: the traceback goes to standard error.
Uncaught(exception) == [message |-> exception, path |-> <<>>]

\* Lines 652-659: the results in the chosen format, then the command
\* returns; nothing after it (count, check, replace) runs.
FormattedOutput(files, opts, searched) ==
    LET fmt == CHOOSE f \in opts.formats : TRUE
        given == OutputLines(searched.symbols, opts.id_prefix)
    IN  IF given.raised = Nil
        THEN Outcome(to_output(given.lines, fmt, Nil), searched.stderr, 0, files,
                     searched.symbols)
        ELSE Outcome(to_output(given.lines, fmt, given.raised),
                     searched.stderr \o <<Uncaught(given.raised)>>, 1, files,
                     searched.symbols)

\* Lines 697-700: the file of the symbol is read, every occurrence of the
\* snippet is replaced (str.replace) and the file is written back.
WriteReplacement(files, symbol, replacement) ==
    [i \in 1..Len(files) |->
        IF files[i].path = symbol.filepath
        THEN [files[i] EXCEPT !.text = Replace(files[i].text, symbol.snippet, replacement),
                              !.writes = files[i].writes + 1]
        ELSE files[i]]

\* A plausible slip: the replacement is written whenever there is a match.
Replacing_AnyMatch(found) == Len(found) >= 1
\* Line 669: replacement requires exactly one match.
Replacing(found) == Len(found) = 1

\* The cli command after the search (lines 643-700): the listing, the
\* count, the --check exit, then the replacement.  searched is what the
\* search returned; rexec is the external command: whether --rexec is
\* given, the exit code of the command and what it prints.
AfterSearch(files, opts, in, replace, searched) ==
    LET found == searched.symbols
        out == Listing(found) \o (IF opts.count THEN <<IntStr(Len(found))>> ELSE <<>>)
        Fail(message) ==
            Outcome(out, searched.stderr \o <<ClickException(message)>>, 1, files, found)
    IN  IF opts.formats # {}
        THEN FormattedOutput(files, opts, searched)
        ELSE IF opts.check /\ Len(found) > 0
        THEN Outcome(out, searched.stderr, 1, files, found)
        ELSE IF ~replace
        THEN Outcome(out, searched.stderr, 0, files, found)
        ELSE IF ~Replacing(found)
        THEN Fail("--replace only works with a single match")
        ELSE IF opts.rexec.given /\ opts.rexec.returncode # 0
        THEN Fail("Command failed")
        ELSE IF ~opts.rexec.given /\ in.isatty
        THEN Fail("--replace only works with text piped to it on stdin")
        ELSE IF ~opts.rexec.given /\ in.text = <<>>
        THEN Fail("No input for --replace found on stdin")
        ELSE Outcome(out, searched.stderr, 0,
                     WriteReplacement(files, found[1],
                                      IF opts.rexec.given THEN opts.rexec.output
                                      ELSE in.text),
                     found)

\* The cli command (lines 507-700): the option defaults, the usage text
\* when nothing was asked for, the --replace/--signatures conflict, then
\* the search and what follows it.
cli(files, syms, opts, fl, in) ==
    LET signatures == opts.signatures \/ opts.count \/ opts.docs
        replace == opts.replace \/ opts.rexec.given
    IN  IF Cardinality(opts.formats) > 1
        THEN Outcome(<<>>, <<ClickException("Only one of --csv, --tsv, --json, --nl can be used")>>,
                     1, files, <<>>)
        ELSE IF opts.id_prefix # <<>> /\ opts.formats = {}
        THEN Outcome(<<>>, <<ClickException("--id-prefix can only be used with --csv, --tsv, --json or --nl")>>,
                     1, files, <<>>)
        ELSE IF syms = <<>> /\ ~signatures /\ fl = {}
        THEN Outcome(<<USAGE>>, <<>>, 0, files, <<>>)
        ELSE IF replace /\ signatures
        THEN Outcome(<<>>, <<ClickException("--replace cannot be used with --signatures")>>,
                     1, files, <<>>)
        ELSE AfterSearch(files, opts, in, replace,
                         SearchSymbols(files, syms,
                                       [signatures |-> signatures, docs |-> opts.docs,
                                        no_file |-> opts.no_file \/ replace,
                                        silent |-> opts.silent], fl))

(***************************************************************************)
(* Specification SpecCli: one run of the command over at most MaxFiles     *)
(* files, either listing (with --signatures, --count, --check, --no-file,  *)
(* --silent, a filter) or replacing (--replace with standard input,        *)
(* --rexec with a command that succeeds or fails).                         *)
(***************************************************************************)
MaxFiles == 2

FilePath(i) == <<"f">> \o IntStr(i) \o <<".", "p", "y">>

\* A broken file (Nil) and the bodies of the files that parse; in the last
\* one the two classes hold the same method text.
FileBodies ==
    {<<PassStmt>>,
     <<FuncStmt("FunctionDef", <<"a">>, 0)>>,
     <<FuncStmt("FunctionDef", <<"a">>, 1), FuncStmt("AsyncFunctionDef", <<"b">>, 0)>>,
     <<ClassStmt(<<"a">>, 0, None, <<FuncStmt("FunctionDef", <<"a">>, 0)>>),
       ClassStmt(<<"b">>, 0, None, <<FuncStmt("FunctionDef", <<"a">>, 0)>>)>>}

DiskFile(i, broken, body) ==
    IF broken THEN BrokenFile(FilePath(i)) ELSE SourceFile(FilePath(i), body)

CliSymbols == {<<>>, <<<<"a">>>>, <<<<"a", ".", "a">>>>, <<<<"*">>, <<"*", ".", "*">>>>}

NoRexec == [given |-> FALSE, returncode |-> 0, output |-> <<>>]
Terminal == [isatty |-> TRUE, text |-> <<>>]
REPLACEMENT == <<"x", "=", "1">>

CliOptions(signatures, count, check, no_file, silent, replace, rexec) ==
    [signatures |-> signatures, docs |-> FALSE, count |-> count, check |-> check,
     no_file |-> no_file, silent |-> silent, replace |-> replace, rexec |-> rexec,
     formats |-> {}, id_prefix |-> <<>>]

\* The invocations: options, filter options, standard input.
Listings ==
    {[options |-> CliOptions(signatures, count, check, no_file, silent, FALSE, NoRexec),
      flags |-> fl, stdin |-> Terminal] :
        signatures \in BOOLEAN, count \in BOOLEAN, check \in BOOLEAN,
        no_file \in BOOLEAN, silent \in BOOLEAN, fl \in {{}, {"function"}}}
Replacements ==
    {[options |-> CliOptions(FALSE, count, check, FALSE, FALSE, TRUE, NoRexec),
      flags |-> {}, stdin |-> in] :
        count \in BOOLEAN, check \in BOOLEAN,
        in \in {Terminal, [isatty |-> FALSE, text |-> <<>>],
                [isatty |-> FALSE, text |-> REPLACEMENT]}}
    \cup {[options |-> CliOptions(FALSE, FALSE, check, FALSE, FALSE, replace,
                                  [given |-> TRUE, returncode |-> rc,
                                   output |-> REPLACEMENT]),
           flags |-> {}, stdin |-> Terminal] :
            check \in BOOLEAN, replace \in BOOLEAN, rc \in {0, 1}}

InitCli ==
    /\ pc = "start"
    /\ \E n \in 1..MaxFiles :
          \E broken \in [1..n -> BOOLEAN], body \in [1..n -> FileBodies] :
              /\ \A i \in 1..n : broken[i] => body[i] = <<PassStmt>>
              /\ disk = [i \in 1..n |-> DiskFile(i, broken[i], body[i])]
    /\ symbols \in CliSymbols
    /\ \E run \in Listings \cup Replacements :
          options = run.options /\ flags = run.flags /\ stdin = run.stdin
    /\ stdout = <<>> /\ stderr = <<>> /\ exit_code = Nil /\ results = Nil
    /\ name = Nil /\ matched = Nil /\ module = Nil /\ nodes = Nil /\ node = Nil
    /\ summary = Nil /\ accepted = Nil /\ definition = Nil

DoCli ==
    /\ pc = "start"
    /\ \E o \in {cli(disk, symbols, options, flags, stdin)} :
           /\ stdout' = o.stdout
           /\ stderr' = o.stderr
           /\ exit_code' = o.exit_code
           /\ disk' = o.disk
           /\ results' = o.results
    /\ pc' = "done"
    /\ UNCHANGED <<stdin, name, symbols, matched, module, options, nodes,
                   node, flags, summary, accepted, definition>>

NextCli == DoCli

SpecCli == InitCli /\ [][NextCli]_vars

\* The files as the run found them: a file that parses held the text of its
\* statements, and nothing had been written.
OriginalDisk ==
    [i \in 1..Len(disk) |->
        [disk[i] EXCEPT !.text = IF disk[i].parses THEN SourceCode(disk[i].body) ELSE @,
                        !.writes = 0]]

ReplaceRequested == options.replace \/ options.rexec.given
\* Neither a symbol nor a filter was given: the usage text is shown and no
\* search runs.
HelpShown ==
    /\ symbols = <<>> /\ flags = {}
    /\ ~(options.signatures \/ options.count \/ options.docs)
\* A replacement text was obtained: the command succeeded, or text was
\* piped to standard input.
ReplacementObtained ==
    IF options.rexec.given THEN options.rexec.returncode = 0
    ELSE ~stdin.isatty /\ stdin.text # <<>>
ReplacementText == IF options.rexec.given THEN options.rexec.output ELSE stdin.text

\* C17: a file that fails to parse contributes no result and does not stop
\* the scan: results, standard output and exit code are those of the run
\* without the malformed files, each file's results are in declaration
\* order, and a plain scan exits with code 0.
C17_MalformedFileSkipped ==
    pc = "done" =>
        LET o == cli(SelectSeq(OriginalDisk, LAMBDA f : f.parses),
                     symbols, options, flags, stdin)
        IN  /\ results = o.results
            /\ stdout = o.stdout
            /\ exit_code = o.exit_code
            /\ \A j, k \in 1..Len(results) :
                  j < k /\ results[j].filepath = results[k].filepath
                      => results[j].line_no < results[k].line_no
            /\ ~ReplaceRequested /\ ~options.check => exit_code = 0

\* A malformed first file was reported, and the file after it gave results.
C17_Witness ==
    /\ pc = "done"
    /\ Len(disk) = 2 /\ ~disk[1].parses /\ disk[2].parses
    /\ Len(results) >= 2
    /\ \A k \in 1..Len(results) : results[k].filepath = disk[2].path
    /\ Len(stderr) = 1
    /\ exit_code = 0

RECURSIVE ReplaceFirst(_, _, _)
\* s with its first occurrence of old replaced by new.
ReplaceFirst(s, old, new) ==
    IF Len(s) < Len(old) THEN s
    ELSE IF SubSeq(s, 1, Len(old)) = old
         THEN new \o SubSeq(s, Len(old) + 1, Len(s))
         ELSE <<s[1]>> \o ReplaceFirst(Tail(s), old, new)

\* C19: a successful replace substitutes only the first occurrence of the
\* snippet in the file's text; the rest of the file, later text equal to
\* the snippet included, and every other file are unchanged.
C19_FirstOccurrenceOnly ==
    pc = "done" =>
        \A i \in 1..Len(disk) :
            IF disk[i].writes > 0
            THEN disk[i].text = ReplaceFirst(OriginalDisk[i].text, results[1].snippet,
                                             ReplacementText)
            ELSE disk[i].text = OriginalDisk[i].text

\* C20: with --count the standard output is the number of matching
\* declarations alone, and it is the number of results of the same run
\* without --count.
C20_CountAlone ==
    pc = "done" /\ options.count /\ ~ReplaceRequested =>
        LET plain == [options EXCEPT !.count = FALSE]
            o == cli(OriginalDisk, symbols, plain, flags, stdin)
            help == symbols = <<>> /\ flags = {} /\ ~(plain.signatures \/ plain.docs)
        IN  /\ stdout = <<IntStr(Len(results))>>
            /\ ~help => Len(results) = Len(o.results)

\* The error messages of the command on standard error (the notes about
\* files that do not parse are not among them).
ErrorMessages == SelectSeq(stderr, LAMBDA item : item.path = <<>>)

\* C22: when --replace fails, because the number of matches is not 1 or
\* because standard input gives no replacement text, the output is the one
\* error message: nothing is written to standard output.
C22_OnlyTheErrorMessage ==
    /\ pc = "done"
    /\ options.replace /\ ~options.rexec.given /\ ~options.check /\ ~HelpShown
    /\ Len(results) # 1 \/ ~ReplacementObtained
    => /\ exit_code = 1
       /\ Len(ErrorMessages) = 1
       /\ stdout = <<>>

(***************************************************************************)
(* cli.search as a library call: the caller hands in its own lists of      *)
(* patterns, files, directories and sys paths, and calls twice with the    *)
(* same list objects.  A directory holds the files whose path lies below   *)
(* it; "." holds the files with a relative path.                           *)
(***************************************************************************)
CURRENT_DIR == <<".">>
STDLIB_FOLDER == <<"/", "l">>

Under(path, directory) ==
    IF directory = CURRENT_DIR THEN path[1] # "/"
    ELSE StartsWith(path, directory \o <<"/">>)

RECURSIVE ParsedAt(_, _)
\* The statements as one run's ast.parse returns them: every keyword value
\* that is no Name is a fresh object at an address of that run.
ParsedAt(stmts, address) ==
    [k \in 1..Len(stmts) |->
        LET keywords == stmts[k].keywords
        IN  [stmts[k] EXCEPT
                !.keywords = [j \in 1..Len(keywords) |->
                                IF keywords[j].value.e = "Name" THEN keywords[j]
                                ELSE Keyword(keywords[j].arg,
                                             [e |-> keywords[j].value.e,
                                              address |-> address])],
                !.body = ParsedAt(stmts[k].body, address)]]

\* iterate_files (lines 146-160): the files listed, then the files below
\* each directory listed.
iterate_files(on_disk, files, directories) ==
    Join([k \in 1..Len(files) |-> SelectSeq(on_disk, LAMBDA f : f.path = files[k])], <<>>)
    \o Join([k \in 1..Len(directories) |->
                SelectSeq(on_disk, LAMBDA f : Under(f.path, directories[k]))], <<>>)

\* The caller's directories list after lines 108-121: the standard library
\* folder is appended with stdlib, and "." when nothing is listed.
DirectoriesAfter(files, directories, stdlib) ==
    LET with_stdlib == IF stdlib THEN Append(directories, STDLIB_FOLDER) ELSE directories
    IN  IF files = <<>> /\ with_stdlib = <<>> THEN <<CURRENT_DIR>> ELSE with_stdlib

\* The caller's sys_paths list after lines 111-112.
SysPathsAfter(sys_paths, stdlib) ==
    IF stdlib /\ \A k \in 1..Len(sys_paths) : sys_paths[k] # STDLIB_FOLDER
    THEN <<STDLIB_FOLDER>> \o sys_paths ELSE sys_paths

\* One call of search() (lines 96-251) whose parse places objects at the
\* given address: what it yields as (text, line) pairs, and the caller's
\* lists before and after the call.
SearchCall(on_disk, lists, opts, fl, address) ==
    LET directories == DirectoriesAfter(lists.files, lists.directories, opts.stdlib)
        scanned == iterate_files(on_disk, lists.files, directories)
        parsed == [k \in 1..Len(scanned) |->
                     [scanned[k] EXCEPT !.body = ParsedAt(@, address)]]
        yielded == SearchSymbols(parsed, lists.symbols, opts, fl).symbols
    IN  [yielded |-> [k \in 1..Len(yielded) |->
                        [text |-> yielded[k].snippet, line |-> yielded[k].line_no]],
         before |-> lists,
         after |-> [lists EXCEPT !.directories = directories,
                                 !.sys_paths = SysPathsAfter(@, opts.stdlib)]]

(***************************************************************************)
(* Specification SpecPipeline: two calls of search() in a row with the     *)
(* same list objects over one or two files in the current directory and    *)
(* one in the standard library folder.                                     *)
(***************************************************************************)
MaxAddress == 2

\* A class whose metaclass is no Name, a function, a class with a method.
PipelineBodies ==
    {<<Stmt("ClassDef", <<"a">>, 0, NoArgs, None, <<>>,
            <<Keyword(METACLASS, CallExpr)>>, None, <<PassStmt>>)>>,
     <<FuncStmt("FunctionDef", <<"a">>, 0)>>,
     <<ClassStmt(<<"b">>, 0, None, <<FuncStmt("FunctionDef", <<"a">>, 0)>>)>>}

CallerLists(syms, files, directories) ==
    [symbols |-> syms, files |-> files, directories |-> directories, sys_paths |-> <<>>]

InitPipeline ==
    /\ pc = "start"
    /\ \E n \in 1..MaxFiles, lib \in PipelineBodies :
          \E body \in [1..n -> PipelineBodies] :
              disk = [i \in 1..n |-> SourceFile(FilePath(i), body[i])]
                         \o <<SourceFile(STDLIB_FOLDER \o <<"/">> \o FilePath(0), lib)>>
    /\ \E syms \in {<<>>, <<<<"a">>>>, <<<<"*">>, <<"*", ".", "*">>>>},
          files \in {<<>>, <<FilePath(1)>>},
          directories \in {<<>>, <<CURRENT_DIR>>} :
          \E signatures \in BOOLEAN, stdlib \in BOOLEAN :
              options = [signatures |-> signatures, docs |-> FALSE, no_file |-> FALSE,
                         silent |-> FALSE, stdlib |-> stdlib,
                         lists |-> CallerLists(syms, files, directories)]
    /\ flags \in {{}, {"class"}}
    /\ results = <<>>
    /\ symbols = Nil /\ stdin = Nil
    /\ stdout = <<>> /\ stderr = <<>> /\ exit_code = Nil
    /\ name = Nil /\ matched = Nil /\ module = Nil /\ nodes = Nil /\ node = Nil
    /\ summary = Nil /\ accepted = Nil /\ definition = Nil

\* The caller calls search() with its lists; the lists are what the call
\* left of them.
DoSearchCall ==
    /\ pc \in {"start", "once"}
    /\ \E address \in 1..MaxAddress :
          \E call \in {SearchCall(disk, options.lists, options, flags, address)} :
              /\ results' = Append(results, call)
              /\ options' = [options EXCEPT !.lists = call.after]
    /\ pc' = IF pc = "start" THEN "once" ELSE "twice"
    /\ UNCHANGED <<name, symbols, matched, module, nodes, node, flags, summary,
                   accepted, definition, disk, stdin, stdout, stderr, exit_code>>

NextPipeline == DoSearchCall

SpecPipeline == InitPipeline /\ [][NextPipeline]_vars

\* C23: the pipeline is a pure function of its inputs: two calls on the
\* same source text, patterns and filter options yield equal sequences of
\* (text, line) results, and no call changes a list the caller gave it.
C23_PurePipeline ==
    /\ \A k \in 1..Len(results) : results[k].after = results[k].before
    /\ pc = "twice" => results[1].yielded = results[2].yielded

(***************************************************************************)
(* Specification SpecOutput: one run of the command with --csv, --tsv,     *)
(* --json or --nl (one of them, two of them, or none with --id-prefix),    *)
(* with and without --signatures, --no-file, --count and --id-prefix.      *)
(***************************************************************************)
ID_PREFIX == <<"p", ":">>

OutputFormats == {{}, {"csv"}, {"tsv"}, {"json"}, {"nl"}, {"csv", "json"}}

InitOutput ==
    /\ pc = "start"
    /\ \E n \in 1..MaxFiles :
          \E broken \in [1..n -> BOOLEAN], body \in [1..n -> FileBodies] :
              /\ \A i \in 1..n : broken[i] => body[i] = <<PassStmt>>
              /\ disk = [i \in 1..n |-> DiskFile(i, broken[i], body[i])]
    /\ symbols \in CliSymbols
    /\ \E signatures \in BOOLEAN, no_file \in BOOLEAN, count \in BOOLEAN,
          formats \in OutputFormats, id_prefix \in {<<>>, ID_PREFIX} :
          options = [CliOptions(signatures, count, FALSE, no_file, FALSE, FALSE, NoRexec)
                        EXCEPT !.formats = formats, !.id_prefix = id_prefix]
    /\ flags = {} /\ stdin = Terminal
    /\ stdout = <<>> /\ stderr = <<>> /\ exit_code = Nil /\ results = Nil
    /\ name = Nil /\ matched = Nil /\ module = Nil /\ nodes = Nil /\ node = Nil
    /\ summary = Nil /\ accepted = Nil /\ definition = Nil

SpecOutput == InitOutput /\ [][NextCli]_vars

\* The run wrote its results in one of the four formats, in signature mode
\* (without --no-file, which leaves the results without an id).
FormattedSignatures ==
    /\ pc = "done"
    /\ Cardinality(options.formats) = 1
    /\ options.signatures \/ options.count
    /\ ~options.no_file

\* The records the results call for: the id is the prefix followed by
\* <path>:<line>, the code is the header followed by a colon.
ExpectedRecords ==
    [k \in 1..Len(results) |->
        [id |-> options.id_prefix \o results[k].filepath \o <<":">>
                    \o IntStr(results[k].line_no),
         code |-> results[k].snippet \o <<":">>]]

\* C21: with --csv, --tsv, --json or --nl in signature mode the output
\* holds exactly one record per matched symbol, whose id is the id-prefix
\* followed by <path>:<line> and whose code is the header ending in a colon.
C21_OneRecordPerSymbol ==
    FormattedSignatures =>
        /\ exit_code = 0
        /\ stdout = to_output(ExpectedRecords, CHOOSE f \in options.formats : TRUE, Nil)

(***************************************************************************)
(* Specification SpecDocs: a file that holds one function, or one class    *)
(* with one method, each without a docstring or with one of DocTexts,      *)
(* searched for everything as signatures with and without --docs.  The     *)
(* spelling of the docstring statement in the file is not read in this     *)
(* mode: the text of a docstring is ast.get_docstring's.                   *)
(***************************************************************************)
\* empty, one line, one line with a quote, two lines, two lines with a
\* triple quote, three lines the second of which is empty
DocTexts ==
    {<<>>, <<"d">>, <<"a", QUOTE, "b">>, <<"a", NL, "b">>,
     <<QUOTE, QUOTE, QUOTE, NL, "b">>, <<"a", NL, NL, "b">>}

Docs == {None} \cup {DocString(text) : text \in DocTexts}

DocFuncStmt(kind, doc) ==
    Stmt(kind, <<"a">>, 0, NoArgs, None, <<>>, <<>>, doc, <<PassStmt>>)

InitDocs ==
    /\ pc = "start"
    /\ disk = Nil /\ stdin = Nil /\ stdout = Nil /\ stderr = Nil /\ exit_code = Nil
    /\ \E kind \in {"FunctionDef", "AsyncFunctionDef"}, doc \in Docs :
          \/ module = <<DocFuncStmt(kind, doc)>>
          \/ \E class_doc \in Docs :
                module = <<ClassStmt(<<"b">>, 0, class_doc, <<DocFuncStmt(kind, doc)>>)>>
    /\ symbols = EVERYTHING
    /\ \E docs \in BOOLEAN : options = Options(TRUE, docs)
    /\ flags = {}
    /\ nodes = Nil /\ results = Nil
    /\ name = Nil /\ matched = Nil /\ node = Nil
    /\ summary = Nil /\ accepted = Nil /\ definition = Nil

SpecDocs == InitDocs /\ [][NextSearch]_vars

\* The header of a match: the signature, a method's behind four spaces.
Header(f) ==
    IF f.node.kind = "ClassDef" THEN class_definition(f.node)
    ELSE (IF f.class_name # <<>> THEN INDENT4 ELSE <<>>) \o function_definition(f.node)

\* The indentation one level beyond the header of a match.
BeyondHeader(f) == IF f.class_name # <<>> THEN INDENT4 \o INDENT4 ELSE INDENT4

OnlySpaces(line) == \A k \in 1..Len(line) : line[k] = " "

\* text occurs in s
Occurs(text, s) ==
    \E i \in 1..(Len(s) - Len(text) + 1) : SubSeq(s, i, i + Len(text) - 1) = text

Backslashed(delimiter) ==
    Join([k \in 1..Len(delimiter) |-> <<"\\", delimiter[k]>>], <<>>)

\* appendix is the docstring doc between delimiters, its inner delimiters
\* escaped, each line that holds more than spaces behind the prefix.
IsAppendix(appendix, doc, prefix) ==
    LET lines == Split(appendix, NL)
        delimiter == IF Contains(doc, NL) THEN TRIPLE_QUOTE ELSE <<QUOTE>>
        d == Len(delimiter)
        quoted == Join([k \in 1..Len(lines) |->
                          IF OnlySpaces(lines[k]) THEN lines[k]
                          ELSE SubSeq(lines[k], Len(prefix) + 1, Len(lines[k]))],
                       <<NL>>)
        inner == SubSeq(quoted, d + 1, Len(quoted) - d)
    IN  /\ \A k \in 1..Len(lines) :
              ~OnlySpaces(lines[k]) => StartsWith(lines[k], prefix)
        /\ Len(quoted) >= 2 * d
        /\ StartsWith(quoted, delimiter) /\ EndsWith(quoted, delimiter)
        /\ ~Occurs(delimiter, Replace(inner, Backslashed(delimiter), <<>>))
        /\ Replace(inner, Backslashed(delimiter), delimiter) = doc

\* The result for the k-th match is its header followed, on the next
\* line, by the appendix for its docstring.
HeaderAndAppendix(k) ==
    LET f == nodes[k]
        header == Header(f)
        snippet == results[k].snippet
    IN  /\ Len(snippet) > Len(header) + 1
        /\ StartsWith(snippet, header \o <<NL>>)
        /\ IsAppendix(SubSeq(snippet, Len(header) + 2, Len(snippet)),
                      f.node.doc.text, BeyondHeader(f))

\* C29 as stated: with --docs a docstring is appended exactly when the
\* first statement of the body is a literal string, the empty string
\* included.
C29_AsStated ==
    pc = "done" /\ options.docs =>
        \A k \in 1..Len(results) :
            results[k].snippet # Header(nodes[k]) <=> nodes[k].node.doc.e # "None"

\* C29: in signature mode with --docs, a docstring is appended after the
\* header iff the declaration has a docstring that is not empty; it
\* follows on the next lines, each line that holds more than spaces
\* indented 4 spaces for a top-level declaration and 8 for a method, in
\* triple double quotes with inner triple quotes escaped when it spans
\* several lines and in double quotes with inner quotes escaped
\* otherwise; without --docs the result is the header alone.
C29_DocstringAppendix ==
    pc = "done" =>
        /\ Len(results) = Len(nodes)
        /\ \A k \in 1..Len(results) :
              IF options.docs /\ HasDocstring(nodes[k].node)
              THEN HeaderAndAppendix(k)
              ELSE results[k].snippet = Header(nodes[k])

\* A method whose docstring spans two lines and holds a triple quote was
\* rendered with --docs, behind a class whose docstring is one line.
C29_Witness ==
    /\ pc = "done" /\ options.docs
    /\ Len(results) = 2
    /\ nodes[1].node.doc = DocString(<<"a", QUOTE, "b">>)
    /\ nodes[2].class_name = <<"b">>
    /\ nodes[2].node.doc = DocString(<<QUOTE, QUOTE, QUOTE, NL, "b">>)
    /\ results[2].snippet # Header(nodes[2])

(***************************************************************************)
(* Specification SpecLocate: files of up to MaxBody statements that hold   *)
(* functions with a function nested in them and classes of up to MaxBody   *)
(* members, a member being a method (with a function nested in it) or a    *)
(* nested class with such a method; every function is named a and every    *)
(* class b, so that a pattern that matches a declaration matches the       *)
(* declarations nested in it too.                                          *)
(***************************************************************************)
MaxBody == 2

\* def a(): / async def a(): with def a(): pass in its body
NestingFunc(kind) ==
    Stmt(kind, <<"a">>, 0, NoArgs, None, <<>>, <<>>, None,
         <<FuncStmt("FunctionDef", <<"a">>, 0)>>)

NestingClasses(members) ==
    {ClassStmt(<<"b">>, 0, None, body) : body \in SeqsUpTo(members, MaxBody) \ {<<>>}}

LocateStmts ==
    {PassStmt, NestingFunc("FunctionDef"), NestingFunc("AsyncFunctionDef")}
        \cup NestingClasses({NestingFunc("AsyncFunctionDef"),
                             ClassStmt(<<"b">>, 0, None, <<NestingFunc("FunctionDef")>>)})

LocateSymbols ==
    {<<<<"*">>>>, EVERYTHING, <<<<"a">>>>, <<<<"b", ".", "a">>>>}

InitLocate ==
    /\ pc = "start"
    /\ disk = Nil /\ stdin = Nil /\ stdout = Nil /\ stderr = Nil /\ exit_code = Nil
    /\ module \in SeqsUpTo(LocateStmts, MaxBody) \ {<<>>}
    /\ symbols \in LocateSymbols
    /\ options = Options(FALSE, FALSE)
    /\ flags = {}
    /\ nodes = Nil /\ results = Nil
    /\ name = Nil /\ matched = Nil /\ node = Nil
    /\ summary = Nil /\ accepted = Nil /\ definition = Nil

SpecLocate == InitLocate /\ [][NextSearch]_vars

\* C30: every declaration the locator returns is a function, async
\* function or class that is a direct statement of the module body, with
\* no class name, or a function or async function that is a direct
\* statement of the body of a top-level class, with that class's name;
\* what is nested deeper is never returned.
C30_OnlyTopLevelAndMethods ==
    pc = "done" =>
        LET body == Parse(module, 1)
        IN  \A k \in 1..Len(nodes) :
              LET f == nodes[k]
              IN  \/ /\ f.class_name = <<>>
                     /\ IsFunction(f.node) \/ f.node.kind = "ClassDef"
                     /\ \E i \in 1..Len(body) : body[i] = f.node
                  \/ /\ f.class_name # <<>>
                     /\ IsFunction(f.node)
                     /\ \E i \in 1..Len(body) :
                           /\ body[i].kind = "ClassDef"
                           /\ body[i].name = f.class_name
                           /\ \E j \in 1..Len(body[i].body) : body[i].body[j] = f.node

\* The search returned a top-level function and the method of a top-level
\* class, and left out a function nested in the function and a method of
\* a nested class although the patterns match their names.
C30_Witness ==
    /\ pc = "done"
    /\ LET body == Parse(module, 1)
           Returned(n) == \E k \in 1..Len(nodes) : nodes[k].node = n
       IN  /\ \E i \in 1..Len(body) :
                 /\ IsFunction(body[i]) /\ Returned(body[i])
                 /\ IsFunction(body[i].body[1])
                 /\ match(body[i].body[1].name, symbols)
                 /\ ~Returned(body[i].body[1])
           /\ \E i \in 1..Len(body) :
                 /\ body[i].kind = "ClassDef"
                 /\ \E j \in 1..Len(body[i].body) :
                       IsFunction(body[i].body[j]) /\ Returned(body[i].body[j])
                 /\ \E j \in 1..Len(body[i].body) :
                       LET inner == body[i].body[j]
                       IN  /\ inner.kind = "ClassDef"
                           /\ IsFunction(inner.body[1])
                           /\ match(Qualified(inner.name, inner.body[1].name), symbols)
                           /\ ~Returned(inner.body[1])

====
